---- MODULE Spec2Model ----
(***************************************************************************)
(* State-machine model of the base station GUI (MainWindow in              *)
(* tabbed_window.py): the feedback_dict status store, the per-vehicle      *)
(* console labels, the confirmation label, the wifi prober, the service    *)
(* clients and the slots that the Qt signals deliver on the UI thread.     *)
(*                                                                         *)
(* Threads.  "ui" is the Qt event thread.  Signals emitted on the ui       *)
(* thread reach their slot synchronously (direct connection); signals      *)
(* emitted on any other thread are posted to ui_queue and delivered, in    *)
(* order, by the event loop.  "ros" is the executor thread that runs the   *)
(* done-callbacks of service futures, "worker" is a threading.Thread.      *)
(*                                                                         *)
(* Encodings.  A displayed text is a triple of its format string, the      *)
(* action name and the number formatted into it (NoNum for none).  The     *)
(* Python values "" and [] are the empty sequence <<>>; an integer held in *)
(* a slot that also holds "" is the one-element sequence <<d>>.  Floats    *)
(* are integers counted in thousandths.  An IP address is the token        *)
(* IpOf(v); deploy_config.json is taken to give distinct hosts.            *)
(***************************************************************************)
EXTENDS Integers, Sequences, FiniteSets, TLC

\* ------------------------------------------------------------------ bounds
MaxVehicleId == 1      \* vehicle ids range over 0..MaxVehicleId
MaxSelected == 2       \* length of the selected list
MaxSteps == 6          \* operations per behaviour of the wifi prober
MaxThreads == 2        \* background threads alive at once
MaxCascade == 4        \* stateChanged emissions followed per click

\* Operations per behaviour when every handler of the window may run: the
\* three it takes a timer tick or a button press to reach its last slot.
AllSteps == MaxSteps \div 2

\* Operations per behaviour of the command dispatcher: button, dialog,
\* response and the delivery of the console lines of the response.
CommandSteps == MaxSteps - 1
TelemetrySteps == AllSteps - 1

\* Largest speed of a twist message, in thousandths.
MaxRoot == 10000

VehicleIds == 0..MaxVehicleId
NoNum == -1

\* ------------------------------------------------------- program constants
Negative == 0
Positive == 1
Waiting == 2

MetricKeys ==
    {"Wifi", "Radio", "Modem", "DVL", "GPS", "IMU", "Battery",
     "Status_messages", "Console_messages", "Missions",
     "Modem_seconds", "Radio_seconds", "XPos", "YPos", "Depth",
     "Heading", "Waypoint", "DVL_vel", "Angular_vel", "Pressure"}

HealthKeys == {"Wifi", "Radio", "Modem", "DVL", "GPS", "IMU", "Battery"}
TextKeys == {"Status_messages", "Console_messages", "Missions"}

\* ----------------------------------------------------------------- helpers
\* A displayed text: the format string, the action name and the number
\* formatted into it.
Text(text, action, num) == <<text, action, num>>

Range(s) == {s[i] : i \in DOMAIN s}

IsInjective(s) == \A i, j \in DOMAIN s : s[i] = s[j] => i = j

\* SetItem that rebuilds the dict from the assigned item alone.
SetItem_rebuilt(d, k, v) == [x \in {k} |-> v]

\* Python dict item assignment d[k] = v: overwrites, or adds the key.
SetItem(d, k, v) == [x \in (DOMAIN d) \cup {k} |-> IF x = k THEN v ELSE d[x]]

\* self.feedback_dict[key][vehicle_number] = value
SetFeedback(fd, key, v, value) == [fd EXCEPT ![key] = SetItem(@, v, value)]

\* ------------------------------------------------- vehicle selection dialog
\* Lists that ConfigurationWindow.validate_and_accept lets through.
SelectableLists ==
    {s \in UNION {[1..n -> VehicleIds] : n \in 1..MaxSelected} : IsInjective(s)}

\* ------------------------------------------------------------- __init__
\* InitFeedbackDict with the icons starting at Negative.
InitFeedbackDict_negative(sel) ==
    [k \in MetricKeys |->
        [v \in Range(sel) |-> IF k \in TextKeys THEN <<>> ELSE Negative]]

InitFeedbackDict(sel) ==
    [k \in MetricKeys |->
        [v \in Range(sel) |-> IF k \in TextKeys THEN <<>> ELSE Waiting]]

\* --------------------------------------------------------- console labels
\* ConsoleAppend that sets the label to the new line alone.
ConsoleAppend_replace(console, msg, vehicle) ==
    IF vehicle \in DOMAIN console
    THEN [console EXCEPT ![vehicle] = <<msg>>]
    ELSE console

\* One pass of the loop body of _update_console_gui: append to the label of
\* `vehicle` when findChild finds it.
ConsoleAppend(console, msg, vehicle) ==
    IF vehicle \in DOMAIN console
    THEN [console EXCEPT ![vehicle] =
            IF @ = <<>> THEN <<msg>> ELSE @ \o <<msg>>]
    ELSE console

RECURSIVE ConsoleLoop(_, _, _)
ConsoleLoop(console, msg, vehicle_numbers) ==
    IF vehicle_numbers = <<>> THEN console
    ELSE ConsoleLoop(ConsoleAppend(console, msg, Head(vehicle_numbers)),
                     msg, Tail(vehicle_numbers))

\* UpdateConsoleGui that takes every vehicle number for the broadcast one.
UpdateConsoleGui_broadcast(console, sel, msg, vehicle_number) ==
    ConsoleLoop(console, msg, sel)

\* _update_console_gui(console_message, vehicle_number)
UpdateConsoleGui(console, sel, msg, vehicle_number) ==
    ConsoleLoop(console, msg,
                IF vehicle_number = 0 THEN sel ELSE <<vehicle_number>>)

\* ------------------------------------------------- console scroll areas
\* Height of one line of a console label and of the viewport of its scroll
\* area, in pixels.
LineHeight == 20
ViewportHeight == LineHeight

\* Slack of the at_bottom test of _update_console_gui, in pixels.
BottomSlack == 2

\* The loop body of _update_console_gui scrolling after every append.
ViewAppend_always(v, vehicle) ==
    IF vehicle \in DOMAIN v
    THEN [v EXCEPT ![vehicle].timers = Append(@, TRUE)]
    ELSE v

\* One pass of the loop body of _update_console_gui on the scroll area of
\* `vehicle`: at_bottom is read from the scroll bar and a single-shot timer
\* for maybe_scroll is started with it.
ViewAppend(v, vehicle) ==
    IF vehicle \in DOMAIN v
    THEN [v EXCEPT ![vehicle].timers =
            Append(@, v[vehicle].value >= v[vehicle].maximum - BottomSlack)]
    ELSE v

RECURSIVE ViewLoop(_, _)
ViewLoop(v, vehicle_numbers) ==
    IF vehicle_numbers = <<>> THEN v
    ELSE ViewLoop(ViewAppend(v, Head(vehicle_numbers)),
                  Tail(vehicle_numbers))

\* What _update_console_gui(console_message, vehicle_number) does to the
\* scroll areas.
UpdateConsoleView(v, sel, vehicle_number) ==
    ViewLoop(v, IF vehicle_number = 0 THEN sel ELSE <<vehicle_number>>)

\* The maximum of the vertical scroll bar of a console of n lines.
ContentMax(n) ==
    IF n * LineHeight > ViewportHeight THEN n * LineHeight - ViewportHeight
    ELSE 0

\* The scroll areas once the window is shown and idle: laid out, the timers
\* of the start-up messages fired.
ShownView(console) ==
    [x \in DOMAIN console |->
        [value |-> ContentMax(Len(console[x])),
         maximum |-> ContentMax(Len(console[x])),
         timers |-> <<>>]]

\* The scroll areas at the end of __init__: nothing laid out yet, one timer
\* pending for every line written so far.
InitView(console) ==
    [x \in DOMAIN console |->
        [value |-> 0, maximum |-> 0,
         timers |-> [i \in 1..Len(console[x]) |-> TRUE]]]

\* ------------------------------------------------------------------- theme
\* Entries of the "Set Theme" menu the operator picks from.
Themes == {"dark_mode", "light_mode", "cadetblue"}

\* self.background_color and self.text_color as set_color_theme sets them.
ThemeColors(color_theme_id) ==
    CASE color_theme_id = "dark_mode" ->
            [background_color |-> "#0F1C37", text_color |-> "#FFFFFF"]
      [] color_theme_id = "light_mode" ->
            [background_color |-> "#f4f6fc", text_color |-> "#000000"]
      [] color_theme_id = "blue_pastel" ->
            [background_color |-> "#caedee", text_color |-> "#000000"]
      [] color_theme_id = "brown_sepia" ->
            [background_color |-> "#f2edd1", text_color |-> "#44312b"]
      [] color_theme_id = "cadetblue" ->
            [background_color |-> "cadetblue", text_color |-> "#000000"]
      [] color_theme_id = "intense_dark" ->
            [background_color |-> "black", text_color |-> "white"]
      [] color_theme_id = "intense_light" ->
            [background_color |-> "white", text_color |-> "black"]

\* apply_theme_to_widgets that also resets the text of the console labels.
ApplyThemeToWidgets_clear(u) ==
    [u EXCEPT !.console = [v \in DOMAIN @ |-> <<>>]]

\* apply_theme_to_widgets: style sheets, palettes and icon backgrounds of
\* the live widgets; no text and no entry of feedback_dict.
ApplyThemeToWidgets(u) == u

\* ------------------------------------------------------ get_IP_addresses
IpOf(v) == 10 + v

\* The "vehicles" section of deploy_config.json, reduced to remote_host.
Configs == {[v \in S |-> IpOf(v)] : S \in SUBSET VehicleIds}

\* IpList that gives up at the first vehicle that is not in the config.
RECURSIVE IpList_until_missing(_, _)
IpList_until_missing(sel, vehicles) ==
    IF sel = <<>> \/ Head(sel) \notin DOMAIN vehicles THEN <<>>
    ELSE <<vehicles[Head(sel)]>> \o IpList_until_missing(Tail(sel), vehicles)

\* self.Vehicle_IP_addresses as the loop of get_IP_addresses fills it.
RECURSIVE IpList(_, _)
IpList(sel, vehicles) ==
    IF sel = <<>> THEN <<>>
    ELSE IF Head(sel) \in DOMAIN vehicles
         THEN <<vehicles[Head(sel)]>> \o IpList(Tail(sel), vehicles)
         ELSE IpList(Tail(sel), vehicles)

IpToVehicle(sel, vehicles) ==
    [ip \in {vehicles[v] : v \in Range(sel) \cap DOMAIN vehicles} |->
        LET idx == {i \in DOMAIN sel :
                      sel[i] \in DOMAIN vehicles /\ vehicles[sel[i]] = ip}
        IN sel[CHOOSE i \in idx : \A j \in idx : j <= i]]

\* Console lines written by get_IP_addresses for the vehicles not in config.
RECURSIVE ConfigErrors(_, _, _, _)
ConfigErrors(console, all, sel, vehicles) ==
    IF sel = <<>> THEN console
    ELSE ConfigErrors(
            IF Head(sel) \in DOMAIN vehicles THEN console
            ELSE UpdateConsoleGui(
                    console, all,
                    Text("Vehicle not found in config", "", Head(sel)),
                    Head(sel)),
            all, Tail(sel), vehicles)

\* Console labels at the end of __init__.
InitConsole(sel, vehicles) ==
    UpdateConsoleGui(
        ConfigErrors([v \in Range(sel) |-> <<>>], sel, sel, vehicles),
        sel, Text("These are the Vehicle IP Addresses", "", NoNum), 0)

\* ------------------------------------------------------------------- state
VARIABLES
    selected_vehicles,    \* self.selected_vehicles (list)
    deploy_config,        \* remote_host of the selected vehicles that the
                          \*   "vehicles" section of deploy_config.json has
    Vehicle_IP_addresses, \* self.Vehicle_IP_addresses (list)
    ip_to_vehicle,        \* self.ip_to_vehicle (dict)
    feedback_dict,        \* self.feedback_dict
    console_text,         \* text of the QLabel Console_messages<v>, as lines
    confirm_label,        \* [text, thread]: confirm_reject_labels and the
                          \*   thread that last called setText on them
    futures,              \* service futures not yet done, in call order
    ui_queue,             \* signals posted to the UI thread, not yet delivered
    threads,              \* background threads started and not yet finished
    dialog,               \* the modal ConfirmationDialog being executed
    color_theme,          \* the theme set_color_theme applied last
    colors,               \* self.background_color and self.text_color
    view,                 \* per console scroll area: scroll bar value and
                          \*   maximum, and the pending maybe_scroll timers
    published,            \* messages published on ROS topics, in order
    uncaught,             \* targets of the threads an exception escaped from
    config_window,        \* the vehicle selection dialog of OpenWindow
    fins,                 \* fin calibration: the param files, the worker's
                          \*   result, the dialog and what accepting it saved
    last_op,              \* the handler that ran last, the vehicle it was
                          \*   called for and the outcome it was given
    delivered,            \* per metric and vehicle, the values carried by
                          \*   the telemetry updates delivered so far
    steps_left            \* operations this behaviour may still take

vars == <<selected_vehicles, deploy_config, Vehicle_IP_addresses,
          ip_to_vehicle,
          feedback_dict, console_text, confirm_label, futures, ui_queue,
          threads, dialog, color_theme, colors, view, published, uncaught,
          config_window, fins, last_op, delivered, steps_left>>

\* What no operation of the session assigns.
fixed == <<selected_vehicles, deploy_config, Vehicle_IP_addresses,
          ip_to_vehicle>>

\* What set_color_theme assigns.
theme == <<color_theme, colors>>

\* What only the mission loader, the calibration thread, the vehicle
\* selection dialog and fin calibration assign.
outside == <<published, uncaught, config_window, fins>>

NoDialog == [handler |-> "none", vehicle |-> NoNum]

\* Fin calibration before the "Calibrate Fins" button is pressed: no param
\* file looked at, no dialog, nothing saved.
NoFins ==
    [files |-> <<>>, tabs |-> <<>>, sliders |-> <<>>, boxes |-> <<>>,
     saved |-> <<>>, parameters |-> <<>>]

\* The vehicle selection dialog once OpenWindow has taken its result.
ClosedConfigWindow ==
    [open |-> FALSE, checked |-> {}, custom_inputs |-> <<>>,
     warning |-> "", result |-> <<>>]

Op(name, vehicle, arg) ==
    [op |-> name, vehicle |-> vehicle, arg |-> arg, input |-> <<>>]

\* A handler together with the message or the input it was given.
OpWith(name, vehicle, arg, input) ==
    [op |-> name, vehicle |-> vehicle, arg |-> arg, input |-> input]

\* Metrics whose handlers store the one number their message carries.
ScalarKeys == {"Depth", "Pressure", "Battery"}

InitialLabel ==
    [text |-> Text("Confirmation/Rejection messages will appear here", "",
                   NoNum),
     thread |-> "ui"]

InitWindow(budget, shown) ==
    /\ selected_vehicles \in SelectableLists
    /\ \E vehicles \in Configs :
        /\ deploy_config = [v \in DOMAIN vehicles \cap Range(selected_vehicles)
                                |-> vehicles[v]]
        /\ Vehicle_IP_addresses = IpList(selected_vehicles, vehicles)
        /\ ip_to_vehicle = IpToVehicle(selected_vehicles, vehicles)
        /\ console_text = InitConsole(selected_vehicles, vehicles)
        /\ view = IF shown
                  THEN ShownView(InitConsole(selected_vehicles, vehicles))
                  ELSE InitView(InitConsole(selected_vehicles, vehicles))
    /\ feedback_dict = InitFeedbackDict(selected_vehicles)
    /\ confirm_label = InitialLabel
    /\ futures = <<>>
    /\ ui_queue = <<>>
    /\ threads = <<>>
    /\ dialog = NoDialog
    /\ color_theme = "dark_mode"
    /\ colors = ThemeColors("dark_mode")
    /\ published = <<>>
    /\ uncaught = <<>>
    /\ config_window = ClosedConfigWindow
    /\ fins = NoFins
    /\ last_op = Op("__init__", NoNum, "")
    /\ delivered = [k \in ScalarKeys |-> [v \in VehicleIds |-> <<>>]]
    /\ steps_left = budget

InitWith(budget) == InitWindow(budget, FALSE)

Init == InitWith(AllSteps)

\* Every operation spends one step of the budget.
Step == /\ steps_left > 0
        /\ steps_left' = steps_left - 1

\* The part of the window that the slots running on the UI thread rewrite.
Ui == [fd |-> feedback_dict, console |-> console_text,
       label |-> confirm_label, futures |-> futures, view |-> view]

SetUi(u) ==
    /\ feedback_dict' = u.fd
    /\ console_text' = u.console
    /\ confirm_label' = u.label
    /\ futures' = u.futures
    /\ view' = u.view

\* replace_confirm_reject_label, called on `thread`
ReplaceLabel(u, text, thread) ==
    [u EXCEPT !.label = [text |-> text, thread |-> thread]]

\* recieve_console_update called on the UI thread: the signal is delivered
\* to _update_console_gui before the call returns.
ConsoleDirect(u, msg, vehicle_number) ==
    [u EXCEPT !.console =
                UpdateConsoleGui(@, selected_vehicles, msg, vehicle_number),
              !.view =
                UpdateConsoleView(@, selected_vehicles, vehicle_number)]

RECURSIVE ConsoleDirectEach(_, _, _)
ConsoleDirectEach(u, msg, vehicle_numbers) ==
    IF vehicle_numbers = <<>> THEN u
    ELSE ConsoleDirectEach(ConsoleDirect(u, msg, Head(vehicle_numbers)),
                           msg, Tail(vehicle_numbers))

\* recieve_console_update called off the UI thread: the queued signal.
ConsoleSignal(msg, vehicle_number) ==
    [sig |-> "update_console_signal", msg |-> msg, vehicle |-> vehicle_number]

\* Remove the i-th element of a sequence.
RemoveAt(s, i) == SubSeq(s, 1, i - 1) \o SubSeq(s, i + 1, Len(s))

\* ------------------------------------------------------ service requests
\* self.ros_node.cli*.call_async(message) followed by add_done_callback(
\* partial(self.handle_service_response, action=..., vehicle_number=...))
CallAsync(u, client, request, action, vehicle_number) ==
    [u EXCEPT !.futures = Append(@, [client |-> client, request |-> request,
                                     action |-> action,
                                     vehicle_number |-> vehicle_number])]

ModemControlRequest(shutoff, vehicle_id) ==
    [modem_shut_off |-> shutoff, vehicle_id |-> vehicle_id]

BeaconIdRequest(vehicle_number) == [beacon_id |-> vehicle_number]

\* modem_shut_off_service(shutoff, vehicle_id), always called on the UI thread
ModemShutOffService(u, shutoff, vehicle_id) ==
    LET text == IF shutoff
                THEN Text("Wifi Connected, Shutting Off Modem", "", NoNum)
                ELSE Text("Wifi Disconnected, Turning On Modem", "", NoNum)
    IN CallAsync(ConsoleDirect(ReplaceLabel(u, text, "ui"), text, vehicle_id),
                 "cli3", ModemControlRequest(shutoff, vehicle_id),
                 "Modem Shut off Service", vehicle_id)

\* ------------------------------------------------------------ wifi prober
\* What subprocess.run(["ping", "-c", "1", "-W", "2", ip]) can do: return
\* with ping's exit status 0 (a reply), 1 (no reply within the 2 seconds) or
\* 2 (ping's own error), or raise.
PingResults == {"returncode 0", "returncode 1", "returncode 2", "raises"}

\* IPs_reachable cut short at the first host that does not answer.
ReportOf_until_failure(results) ==
    [i \in {j \in DOMAIN Vehicle_IP_addresses :
                \A k \in 1..j : results[k] = "returncode 0"} |->
        [ip |-> Vehicle_IP_addresses[i], reachable |-> 1]]

\* The IPs_reachable dict do_ping builds: one item per probed IP, in probe
\* order, results[i] being the outcome of the i-th ping.
ReportOf(results) ==
    [i \in DOMAIN Vehicle_IP_addresses |->
        [ip |-> Vehicle_IP_addresses[i],
         reachable |-> IF results[i] = "returncode 0" THEN 1 ELSE 0]]

\* WifiItem with the polarity of the modem request inverted.
WifiItem_inverted(u, ip, reachable) ==
    IF ip \notin DOMAIN ip_to_vehicle THEN u
    ELSE LET vehicle_number == ip_to_vehicle[ip]
             wifi_status == u.fd["Wifi"][vehicle_number]
         IN IF wifi_status # reachable
            THEN LET logged == ConsoleDirect(u,
                        Text(IF reachable = 1 THEN "Ping successful for vehicle"
                                              ELSE "Unable to Ping vehicle",
                             "", vehicle_number), vehicle_number)
                     stored == [logged EXCEPT !.fd =
                        SetFeedback(@, "Wifi", vehicle_number, reachable)]
                 IN ModemShutOffService(stored, reachable = 0, vehicle_number)
            ELSE u

\* Loop body of update_wifi_widgets for one (ip, reachable) item.
WifiItem(u, ip, reachable) ==
    IF ip \notin DOMAIN ip_to_vehicle THEN u
    ELSE LET vehicle_number == ip_to_vehicle[ip]
             wifi_status == u.fd["Wifi"][vehicle_number]
         IN IF wifi_status # reachable
            THEN LET logged == ConsoleDirect(u,
                        Text(IF reachable = 1 THEN "Ping successful for vehicle"
                                              ELSE "Unable to Ping vehicle",
                             "", vehicle_number), vehicle_number)
                     stored == [logged EXCEPT !.fd =
                        SetFeedback(@, "Wifi", vehicle_number, reachable)]
                 IN ModemShutOffService(stored, reachable = 1, vehicle_number)
            ELSE u

RECURSIVE WifiLoop(_, _)
WifiLoop(u, items) ==
    IF items = <<>> THEN u
    ELSE WifiLoop(WifiItem(u, Head(items).ip, Head(items).reachable),
                  Tail(items))

\* update_wifi_widgets(IPs_dict)
UpdateWifiWidgets(u, IPs_dict) == WifiLoop(u, IPs_dict)

\* ping_timer timeout -> ping_vehicles_via_wifi: start a do_ping thread.
PingVehiclesViaWifi ==
    /\ Step
    /\ Len(threads) < MaxThreads
    /\ threads' = Append(threads, [target |-> "do_ping", vehicle |-> NoNum,
                                    overtaken |-> FALSE])
    /\ last_op' = Op("ping_vehicles_via_wifi", NoNum, "")
    /\ UNCHANGED <<theme, delivered, fixed, outside, feedback_dict,
                   console_text, view, confirm_label, futures, ui_queue,
                   dialog>>

\* History: the do_ping threads started before thread i are marked once
\* thread i has emitted its report ahead of theirs.
Overtake(ts, i) ==
    [j \in DOMAIN ts |->
        IF j < i /\ ts[j].target = "do_ping"
        THEN [ts[j] EXCEPT !.overtaken = TRUE] ELSE ts[j]]

\* do_ping runs to its end: every IP probed and the report emitted, or an
\* exception of subprocess.run caught and printed by the except clause.
\* Any of the running batches may be the one that ends: a batch takes as
\* long as its pings, up to 2 seconds per host that does not answer, and
\* the timer starts the next one after 3 seconds. `stale` is history: the
\* report comes from a batch started before one that has reported already.
DoPing ==
    /\ Step
    /\ \E i \in DOMAIN threads :
        /\ threads[i].target = "do_ping"
        /\ \E results \in [DOMAIN Vehicle_IP_addresses -> PingResults] :
            IF \E k \in DOMAIN results : results[k] = "raises"
            THEN /\ threads' = RemoveAt(threads, i)
                 /\ UNCHANGED ui_queue
                 /\ last_op' = OpWith("do_ping", NoNum, "exception", results)
            ELSE /\ threads' = RemoveAt(Overtake(threads, i), i)
                 /\ ui_queue' = Append(ui_queue,
                                    [sig |-> "update_wifi_signal",
                                     IPs_dict |-> ReportOf(results),
                                     stale |-> threads[i].overtaken])
                 /\ last_op' = OpWith("do_ping", NoNum, "", results)
    /\ UNCHANGED <<theme, delivered, fixed, outside, feedback_dict,
                   console_text, view, confirm_label, futures, dialog>>

\* The event loop delivers update_wifi_signal to update_wifi_widgets.
DeliverWifi ==
    /\ Step
    /\ ui_queue # <<>>
    /\ Head(ui_queue).sig = "update_wifi_signal"
    /\ ui_queue' = Tail(ui_queue)
    /\ SetUi(UpdateWifiWidgets(Ui, Head(ui_queue).IPs_dict))
    /\ last_op' = Op("update_wifi_widgets", NoNum, "")
    /\ UNCHANGED <<theme, delivered, fixed, outside, threads, dialog>>

\* The event loop delivers update_console_signal to _update_console_gui.
DeliverConsole ==
    /\ Step
    /\ ui_queue # <<>>
    /\ Head(ui_queue).sig = "update_console_signal"
    /\ ui_queue' = Tail(ui_queue)
    /\ console_text' = UpdateConsoleGui(console_text, selected_vehicles,
                            Head(ui_queue).msg, Head(ui_queue).vehicle)
    /\ view' = UpdateConsoleView(view, selected_vehicles,
                                 Head(ui_queue).vehicle)
    /\ last_op' = Op("_update_console_gui", Head(ui_queue).vehicle, "")
    /\ UNCHANGED <<theme, delivered, fixed, outside, feedback_dict,
                   confirm_label, futures, threads, dialog>>

\* ------------------------------------------------ console_log subscription
ConsoleTexts == {Text("console_log message", "", NoNum)}

RECURSIVE ConsoleSignalEach(_, _)
ConsoleSignalEach(msg, vehicle_numbers) ==
    IF vehicle_numbers = <<>> THEN <<>>
    ELSE <<ConsoleSignal(msg, Head(vehicle_numbers))>>
            \o ConsoleSignalEach(msg, Tail(vehicle_numbers))

\* The signals handle_console_log(msg) emits (it runs on the ros thread).
HandleConsoleLogSignals(sel, message, vehicle_number) ==
    IF vehicle_number = 0 THEN ConsoleSignalEach(message, sel)
    ELSE IF vehicle_number \in Range(sel)
         THEN <<ConsoleSignal(message, vehicle_number)>>
         ELSE <<>>

HandleConsoleLog ==
    /\ Step
    /\ \E message \in ConsoleTexts, vehicle_number \in VehicleIds :
        /\ ui_queue' = ui_queue \o HandleConsoleLogSignals(
                            selected_vehicles, message, vehicle_number)
        /\ last_op' = Op("handle_console_log", vehicle_number, "")
    /\ UNCHANGED <<theme, delivered, fixed, outside, feedback_dict,
                   console_text, view, confirm_label, futures, threads,
                   dialog>>

\* ------------------------------------------------------ emergency buttons
EmergencyHandlers == {"emergency_shutdown_button", "emergency_surface_button"}

EmergencyName(handler) ==
    IF handler = "emergency_shutdown_button" THEN "Emergency Shutdown"
    ELSE "Emergency Surface"

EmergencyClient(handler) ==
    IF handler = "emergency_shutdown_button" THEN "cli" ELSE "cli2"

\* EmergencyAfterDialog that submits the request whatever the answer.
EmergencyAfterDialog_unguarded(u, handler, vehicle_number, accepted) ==
    CallAsync(
        ConsoleDirect(
            ReplaceLabel(u, Text("Starting", EmergencyName(handler), NoNum),
                         "ui"),
            Text("Starting for Vehicle", EmergencyName(handler),
                 vehicle_number), vehicle_number),
        EmergencyClient(handler), BeaconIdRequest(vehicle_number),
        EmergencyName(handler), vehicle_number)

\* The handler after dlg.exec() returned `accepted`.
EmergencyAfterDialog(u, handler, vehicle_number, accepted) ==
    IF accepted
    THEN CallAsync(
            ConsoleDirect(
                ReplaceLabel(u, Text("Starting", EmergencyName(handler), NoNum),
                             "ui"),
                Text("Starting for Vehicle", EmergencyName(handler),
                     vehicle_number), vehicle_number),
            EmergencyClient(handler), BeaconIdRequest(vehicle_number),
            EmergencyName(handler), vehicle_number)
    ELSE ConsoleDirect(
            ReplaceLabel(u, Text("Canceling command", EmergencyName(handler),
                                 NoNum), "ui"),
            Text("Canceling for Vehicle", EmergencyName(handler),
                 vehicle_number), vehicle_number)

\* The operator presses the button on the tab of a vehicle: the handler
\* builds the request and executes the modal ConfirmationDialog.
EmergencyButton ==
    /\ Step
    /\ dialog = NoDialog
    /\ \E handler \in EmergencyHandlers, v \in Range(selected_vehicles) :
        /\ dialog' = [handler |-> handler, vehicle |-> v]
        /\ last_op' = Op(handler, v, "exec")
    /\ UNCHANGED <<theme, delivered, fixed, outside, feedback_dict,
                   console_text, view, confirm_label, futures, ui_queue,
                   threads>>

\* The operator answers the dialog and the handler runs to its end.
EmergencyDialogDone ==
    /\ Step
    /\ dialog.handler \in EmergencyHandlers
    /\ \E accepted \in BOOLEAN :
        /\ SetUi(EmergencyAfterDialog(Ui, dialog.handler, dialog.vehicle,
                                      accepted))
        /\ last_op' = Op(dialog.handler, dialog.vehicle,
                        IF accepted THEN "accepted" ELSE "rejected")
    /\ dialog' = NoDialog
    /\ UNCHANGED <<theme, delivered, fixed, outside, ui_queue, threads>>

\* ----------------------------------------------------------- clear_console
\* clear_console after dlg.exec() returned `accepted`.
ClearConsoleAfterDialog(u, vehicle_number, accepted) ==
    IF accepted
    THEN IF vehicle_number \in DOMAIN u.console
         THEN [u EXCEPT !.console[vehicle_number] = <<>>]
         ELSE u
    ELSE ConsoleDirect(u, Text("Clear Console Log Command Canceled", "",
                               NoNum), vehicle_number)

\* The operator presses "Clear Console" on the tab of a vehicle: the
\* handler sets the confirmation label and executes the modal dialog.
ClearConsole ==
    /\ Step
    /\ dialog = NoDialog
    /\ \E v \in Range(selected_vehicles) :
        /\ SetUi(ReplaceLabel(Ui, Text("Clear Console Called for Vehicle",
                                        "", v), "ui"))
        /\ dialog' = [handler |-> "clear_console", vehicle |-> v]
        /\ last_op' = Op("clear_console", v, "exec")
    /\ UNCHANGED <<theme, delivered, fixed, outside, ui_queue, threads>>

\* The operator answers the dialog and clear_console runs to its end.
ClearConsoleDialogDone ==
    /\ Step
    /\ dialog.handler = "clear_console"
    /\ \E accepted \in BOOLEAN :
        /\ SetUi(ClearConsoleAfterDialog(Ui, dialog.vehicle, accepted))
        /\ last_op' = Op("clear_console", dialog.vehicle,
                        IF accepted THEN "accepted" ELSE "rejected")
    /\ dialog' = NoDialog
    /\ UNCHANGED <<theme, delivered, fixed, outside, ui_queue, threads>>

\* -------------------------------------------------- handle_service_response
Outcomes == {"success", "failed", "exception"}

ResponseText(action, outcome) ==
    IF outcome = "success"
    THEN Text("Service Initiated Successfully", action, NoNum)
    ELSE IF outcome = "failed"
         THEN Text("Service Initialization Failed", action, NoNum)
         ELSE Text("service call failed", action, NoNum)

\* ResponseSignals that only prints when the call raised.
ResponseSignals_silent(sel, action, vehicle_number, outcome) ==
    IF outcome = "exception" THEN <<>>
    ELSE IF vehicle_number = 0
         THEN ConsoleSignalEach(ResponseText(action, outcome), sel)
         ELSE IF vehicle_number \in Range(sel)
              THEN <<ConsoleSignal(ResponseText(action, outcome),
                                   vehicle_number)>>
              ELSE <<>>

\* The console signals handle_service_response emits.
ResponseSignals(sel, action, vehicle_number, outcome) ==
    IF outcome = "exception"
    THEN IF vehicle_number \in Range(sel)
         THEN <<ConsoleSignal(ResponseText(action, outcome), vehicle_number)>>
         ELSE <<>>
    ELSE IF vehicle_number = 0
         THEN ConsoleSignalEach(ResponseText(action, outcome), sel)
         ELSE IF vehicle_number \in Range(sel)
              THEN <<ConsoleSignal(ResponseText(action, outcome),
                                   vehicle_number)>>
              ELSE <<>>

\* A future completes and its done-callback runs on the ros thread.
HandleServiceResponse ==
    /\ Step
    /\ \E i \in DOMAIN futures, outcome \in Outcomes :
        LET f == futures[i] IN
        /\ futures' = RemoveAt(futures, i)
        /\ confirm_label' = [text |-> ResponseText(f.action, outcome),
                             thread |-> "ros"]
        /\ ui_queue' = ui_queue \o ResponseSignals(selected_vehicles, f.action,
                                        f.vehicle_number, outcome)
        /\ last_op' = Op("handle_service_response", f.vehicle_number, outcome)
    /\ UNCHANGED <<theme, delivered, fixed, outside, feedback_dict,
                   console_text, view, threads, dialog>>

\* ------------------------------------------------------------- bag sync
\* spec_copy_bags(vehicle_number): the button on a vehicle tab.
SpecCopyBags ==
    /\ Step
    /\ dialog = NoDialog
    /\ Len(threads) < MaxThreads
    /\ \E v \in Range(selected_vehicles) :
        /\ SetUi(ConsoleDirect(
                    ReplaceLabel(Ui, Text("Starting bag sync for Vehicle", "",
                                          v), "ui"),
                    Text("Starting bag sync for Vehicle", "", v), v))
        /\ threads' = Append(threads,
                             [target |-> "run_sync_bags", vehicle |-> v])
        /\ last_op' = Op("spec_copy_bags", v, "")
    /\ UNCHANGED <<theme, delivered, fixed, outside, ui_queue, dialog>>

\* What subprocess.run of sync_bags.sh can do: raise, or return a code, with
\* or without text on the stream the handler looks at.
SyncResults == {[kind |-> k, output |-> o] :
                    k \in {"returncode 0", "returncode nonzero"},
                    o \in BOOLEAN}
               \cup {[kind |-> "exception", output |-> FALSE]}

SyncText(result, v) ==
    IF result.kind = "returncode 0"
    THEN Text("Bag sync completed successfully", "", v)
    ELSE IF result.kind = "returncode nonzero"
         THEN Text("Bag sync failed", "", v)
         ELSE Text("Failed to run bag sync script", "", v)

\* The console signals run_sync_bags emits.
SyncSignals(result, v) ==
    <<ConsoleSignal(SyncText(result, v), v)>>
    \o (IF result.output
        THEN <<ConsoleSignal(
                  Text(IF result.kind = "returncode 0" THEN "Script output"
                                                       ELSE "Error", "", v),
                  v)>>
        ELSE <<>>)

\* run_sync_bags(vehicle_number) runs to its end on its worker thread.
RunSyncBags ==
    /\ Step
    /\ \E i \in DOMAIN threads, result \in SyncResults :
        LET v == threads[i].vehicle IN
        /\ threads[i].target = "run_sync_bags"
        /\ threads' = RemoveAt(threads, i)
        /\ confirm_label' = [text |-> SyncText(result, v), thread |-> "worker"]
        /\ ui_queue' = ui_queue \o SyncSignals(result, v)
        /\ last_op' = Op("run_sync_bags", v, result.kind)
    /\ UNCHANGED <<theme, delivered, fixed, outside, feedback_dict,
                   console_text, view, futures, dialog>>

\* --------------------------------------------------------------- telemetry
\* Python round(x, ndigits) on a number counted in thousandths; `unit` is
\* 10 for two decimals and 100 for one.  Ties go to the even neighbour.
RoundTo(x, unit) ==
    LET q == x \div unit
        r == x % unit
    IN IF 2 * r < unit THEN q * unit
       ELSE IF 2 * r > unit THEN (q + 1) * unit
       ELSE IF q % 2 = 0 THEN q * unit ELSE (q + 1) * unit

\* The widget lookups of replace_specific_status_widget and
\* replace_*_icon_widget succeed exactly for the vehicles that have a tab.
HasWidgets(v) == v \in Range(selected_vehicles)

\* UpdateDepthData that keeps a depth already stored.
UpdateDepthData_keep(fd, vehicle_number, z) ==
    IF /\ vehicle_number \in DOMAIN fd["Depth"]
       /\ fd["Depth"][vehicle_number] # Waiting
    THEN fd
    ELSE SetFeedback(fd, "Depth", vehicle_number, RoundTo(z, 10))

\* update_depth_data(vehicle_number, msg): msg.pose.pose.position.z
UpdateDepthData(fd, vehicle_number, z) ==
    SetFeedback(fd, "Depth", vehicle_number, RoundTo(z, 10))

\* update_pressure_data(vehicle_number, msg): msg.fluid_pressure
UpdatePressureData(fd, vehicle_number, fluid_pressure) ==
    SetFeedback(fd, "Pressure", vehicle_number, RoundTo(fluid_pressure, 10))

\* update_battery_data(vehicle_number, msg): msg.voltage
UpdateBatteryData(fd, vehicle_number, voltage) ==
    SetFeedback(fd, "Battery", vehicle_number, RoundTo(voltage, 100))

DepthValues == {1234, -5678}
PressureValues == {101326, 101999}
VoltageValues == {15960, 14230}

DeliverDepth ==
    /\ Step
    /\ \E v \in VehicleIds, z \in DepthValues :
        /\ feedback_dict' = UpdateDepthData(feedback_dict, v, z)
        /\ delivered' = [delivered EXCEPT !["Depth"][v] = Append(@, z)]
        /\ last_op' = Op("update_depth_data", v, "")
    /\ UNCHANGED <<theme, fixed, outside, console_text, view, confirm_label,
                   futures, ui_queue, threads, dialog>>

DeliverPressure ==
    /\ Step
    /\ \E v \in VehicleIds, p \in PressureValues :
        /\ feedback_dict' = UpdatePressureData(feedback_dict, v, p)
        /\ delivered' = [delivered EXCEPT !["Pressure"][v] = Append(@, p)]
        /\ last_op' = Op("update_pressure_data", v, "")
    /\ UNCHANGED <<theme, fixed, outside, console_text, view, confirm_label,
                   futures, ui_queue, threads, dialog>>

DeliverBattery ==
    /\ Step
    /\ \E v \in VehicleIds, volts \in VoltageValues :
        /\ feedback_dict' = UpdateBatteryData(feedback_dict, v, volts)
        /\ delivered' = [delivered EXCEPT !["Battery"][v] = Append(@, volts)]
        /\ last_op' = Op("update_battery_data", v, "")
    /\ UNCHANGED <<theme, fixed, outside, console_text, view, confirm_label,
                   futures, ui_queue, threads, dialog>>

\* _update_safety_status_information storing the flags as they come.
UpdateSafetyStatusInformation_direct(fd, vehicle_number, safety_message) ==
    SetFeedback(
        SetFeedback(
            SetFeedback(fd, "GPS", vehicle_number,
                        IF safety_message.gps_status THEN 1 ELSE 0),
            "DVL", vehicle_number,
            IF safety_message.dvl_status THEN 1 ELSE 0),
        "IMU", vehicle_number,
        IF safety_message.imu_published THEN 1 ELSE 0)

\* _update_safety_status_information(vehicle_number, safety_message).  The
\* three icon entries are written first; the icon lookups that follow raise
\* for a vehicle without widgets, before the status text is reached.
UpdateSafetyStatusInformation(fd, vehicle_number, safety_message) ==
    LET gps_data == IF safety_message.gps_status THEN 0 ELSE 1
        dvl_data == IF safety_message.dvl_status THEN 0 ELSE 1
        imu_data == IF safety_message.imu_published THEN 1 ELSE 0
        icons == SetFeedback(
                    SetFeedback(
                        SetFeedback(fd, "GPS", vehicle_number, gps_data),
                        "DVL", vehicle_number, dvl_data),
                    "IMU", vehicle_number, imu_data)
    IN IF ~HasWidgets(vehicle_number) THEN icons
       ELSE IF icons["Status_messages"][vehicle_number]
                    # <<safety_message.emergency_status>>
            THEN SetFeedback(icons, "Status_messages", vehicle_number,
                             <<safety_message.emergency_status>>)
            ELSE icons

SafetyMessages ==
    {[gps_status |-> g, dvl_status |-> d, imu_published |-> g,
      emergency_status |-> IF d THEN 1 ELSE 0] : g, d \in BOOLEAN}

DeliverSafetyStatus ==
    /\ Step
    /\ \E v \in VehicleIds, m \in SafetyMessages :
        /\ feedback_dict' = UpdateSafetyStatusInformation(feedback_dict, v, m)
        /\ last_op' = OpWith("_update_safety_status_information", v, "", m)
    /\ UNCHANGED <<theme, delivered, fixed, outside, console_text, view,
                   confirm_label, futures, ui_queue, threads, dialog>>

\* ---------------------------------------------------------- smoothed output
\* The largest t of lo..hi with t * t <= s, for lo * lo <= s < (hi+1)^2.
RECURSIVE SqrtSearch(_, _, _)
SqrtSearch(lo, hi, s) ==
    IF lo = hi THEN lo
    ELSE LET mid == (lo + hi + 1) \div 2
         IN IF mid * mid <= s THEN SqrtSearch(mid, hi, s)
            ELSE SqrtSearch(lo, mid - 1, s)

\* The whole thousandths of math.sqrt of s millionths.
FloorSqrt(s) == SqrtSearch(0, MaxRoot, s)

\* round(math.sqrt(x**2 + y**2 + z**2), 2) that keeps the sign of x.
RoundedNorm_signed(vec) ==
    LET s == vec[1] * vec[1] + vec[2] * vec[2] + vec[3] * vec[3]
    IN IF vec[1] < 0 THEN 0 - RoundTo(FloorSqrt(s), 10)
       ELSE RoundTo(FloorSqrt(s), 10)

\* round(math.sqrt(x**2 + y**2 + z**2), 2) of a vector in thousandths: the
\* root lies between t and t + 1 thousandths, so it rounds as t does unless
\* t ends in 5 and the root is above t.
RoundedNorm(vec) ==
    LET s == vec[1] * vec[1] + vec[2] * vec[2] + vec[3] * vec[3]
        t == FloorSqrt(s)
    IN IF t % 10 = 5 /\ t * t < s THEN (t \div 10 + 1) * 10
       ELSE RoundTo(t, 10)

\* Orientations (w, x, y, z), all rotations about the z axis.
Quaternions == {<<1, 0, 0, 0>>, <<1, 0, 0, 1>>, <<1, 0, 0, -1>>, <<0, 0, 0, 1>>}

\* math.degrees(yaw) % 360 for the yaw quat2euler gives, in thousandths.
HeadingDeg(q) ==
    CASE q = <<1, 0, 0, 0>> -> 0
      [] q = <<1, 0, 0, 1>> -> 90000
      [] q = <<1, 0, 0, -1>> -> 270000
      [] q = <<0, 0, 0, 1>> -> 180000

\* _update_gui_smoothed_output(vehicle_number, msg): the five entries are
\* written before the widgets are looked up.
UpdateGuiSmoothedOutput(fd, vehicle_number, msg) ==
    SetFeedback(
        SetFeedback(
            SetFeedback(
                SetFeedback(
                    SetFeedback(fd, "XPos", vehicle_number,
                                RoundTo(msg.position[1], 10)),
                    "YPos", vehicle_number, RoundTo(msg.position[2], 10)),
                "DVL_vel", vehicle_number, RoundedNorm(msg.linear)),
            "Angular_vel", vehicle_number, RoundedNorm(msg.angular)),
        "Heading", vehicle_number, RoundTo(HeadingDeg(msg.orientation), 10))

\* Odometry messages, in thousandths: position (x, y), orientation, linear
\* and angular twist.
SmoothedMessages ==
    {[position |-> <<12346, -7891>>, orientation |-> <<1, 0, 0, 0>>,
      linear |-> <<3000, 4000, 0>>, angular |-> <<0, 0, 0>>],
     [position |-> <<0, 1004>>, orientation |-> <<1, 0, 0, -1>>,
      linear |-> <<-1234, 567, -89>>, angular |-> <<100, -200, 200>>],
     [position |-> <<-3, 250>>, orientation |-> <<0, 0, 0, 1>>,
      linear |-> <<0, 0, -14>>, angular |-> <<-1000, -1000, 0>>],
     [position |-> <<1500, 1500>>, orientation |-> <<1, 0, 0, 1>>,
      linear |-> <<0, 0, 0>>, angular |-> <<0, 16, 0>>]}

\* The event loop delivers smoothed_ouput_signal.
DeliverSmoothedOutput ==
    /\ Step
    /\ \E v \in VehicleIds, msg \in SmoothedMessages :
        /\ feedback_dict' = UpdateGuiSmoothedOutput(feedback_dict, v, msg)
        /\ last_op' = OpWith("_update_gui_smoothed_output", v, "", msg)
    /\ UNCHANGED <<theme, delivered, fixed, outside, console_text, view,
                   confirm_label, futures, ui_queue, threads, dialog>>

\* ------------------------------------------------------ connection health
\* The first loop of _update_connections_gui reading connections by the
\* vehicle number.
RECURSIVE ConnStatusLoop_by_number(_, _, _, _)
ConnStatusLoop_by_number(fd, feedback_key, conn_message, i) ==
    IF i > Len(conn_message.vehicle_ids) THEN fd
    ELSE LET vehicle_number == conn_message.vehicle_ids[i]
             j == IF vehicle_number + 1 \in DOMAIN conn_message.connections
                  THEN vehicle_number + 1 ELSE i
         IN ConnStatusLoop_by_number(
                IF vehicle_number \notin DOMAIN fd[feedback_key] THEN fd
                ELSE SetFeedback(fd, feedback_key, vehicle_number,
                        IF conn_message.connections[j] THEN 1 ELSE 0),
                feedback_key, conn_message, i + 1)

\* First loop of _update_connections_gui: the status icons.
RECURSIVE ConnStatusLoop(_, _, _, _)
ConnStatusLoop(fd, feedback_key, conn_message, i) ==
    IF i > Len(conn_message.vehicle_ids) THEN fd
    ELSE LET vehicle_number == conn_message.vehicle_ids[i]
         IN ConnStatusLoop(
                IF vehicle_number \notin DOMAIN fd[feedback_key] THEN fd
                ELSE SetFeedback(fd, feedback_key, vehicle_number,
                        IF conn_message.connections[i] THEN 1 ELSE 0),
                feedback_key, conn_message, i + 1)

\* Second loop of _update_connections_gui: the seconds since the last ping.
RECURSIVE ConnSecondsLoop(_, _, _, _)
ConnSecondsLoop(fd, feedback_key_seconds, conn_message, i) ==
    IF i > Len(conn_message.vehicle_ids) THEN fd
    ELSE LET vehicle_number == conn_message.vehicle_ids[i]
         IN ConnSecondsLoop(
                IF vehicle_number \notin Range(selected_vehicles) THEN fd
                ELSE SetFeedback(fd, feedback_key_seconds, vehicle_number,
                                 conn_message.last_ping[i]),
                feedback_key_seconds, conn_message, i + 1)

\* _update_connections_gui(conn_message)
UpdateConnectionsGui(fd, conn_message) ==
    LET feedback_key == IF conn_message.connection_type THEN "Radio"
                                                        ELSE "Modem"
        feedback_key_seconds == IF conn_message.connection_type
                                THEN "Radio_seconds" ELSE "Modem_seconds"
    IN ConnSecondsLoop(ConnStatusLoop(fd, feedback_key, conn_message, 1),
                       feedback_key_seconds, conn_message, 1)

\* The vehicle_ids of the Connections messages: one vehicle, or a vehicle
\* followed by the next one (the first after the last).
ConnVehicleIds ==
    {<<v>> : v \in VehicleIds}
        \cup {<<v, (v + 1) % (MaxVehicleId + 1)>> : v \in VehicleIds}

\* Connections messages: one entry of connections and of last_ping per
\* listed vehicle; the links are up and down in turn along the list, the
\* first one up.
ConnMessages ==
    {[connection_type |-> t, vehicle_ids |-> ids,
      connections |-> [i \in DOMAIN ids |-> i % 2 = 1],
      last_ping |-> [i \in DOMAIN ids |-> 4 + i]] :
        t \in BOOLEAN, ids \in ConnVehicleIds}

DeliverConnections ==
    /\ Step
    /\ \E m \in ConnMessages :
        /\ feedback_dict' = UpdateConnectionsGui(feedback_dict, m)
        /\ last_op' = OpWith("_update_connections_gui", NoNum, "", m)
    /\ UNCHANGED <<theme, delivered, fixed, outside, console_text, view,
                   confirm_label, futures, ui_queue, threads, dialog>>

\* --------------------------------------------------------- set_color_theme
\* set_color_theme(color_theme) from the "Set Theme" menu, followed by
\* apply_theme_to_widgets.
SetColorTheme ==
    /\ Step
    /\ dialog = NoDialog
    /\ \E color_theme_id \in Themes :
        /\ color_theme' = color_theme_id
        /\ colors' = ThemeColors(color_theme_id)
        /\ SetUi(ApplyThemeToWidgets(Ui))
        /\ last_op' = Op("set_color_theme", NoNum, color_theme_id)
    /\ UNCHANGED <<delivered, fixed, outside, ui_queue, threads, dialog>>

\* ------------------------------------------------------- Load All Missions
\* What yaml gives for a key that is absent or null.
None == -1000

\* The mission files the operator can pick in the file dialog.
MissionFiles ==
    {"a.yaml", "b.yaml", "c.yaml", "d.yaml", "e.yaml", "f.yaml"}

\* Files open() or yaml.safe_load raises on.
Unreadable == {"e.yaml"}

\* yaml.safe_load of a readable mission file: origin_lla is <<>> when the
\* section is absent, else <<latitude, longitude>>; waypoints is the list
\* of the (x, y) of position_enu.
MissionData(file) ==
    CASE file = "a.yaml" ->
            [origin_lla |-> <<40, -111>>, waypoints |-> <<<<1, 2>>, <<3, 4>>>>]
      [] file = "b.yaml" ->
            [origin_lla |-> <<41, -111>>, waypoints |-> <<<<5, 6>>>>]
      [] file = "c.yaml" ->
            [origin_lla |-> <<40, -111>>, waypoints |-> <<>>]
      [] file = "d.yaml" ->
            [origin_lla |-> <<>>, waypoints |-> <<<<7, 8>>>>]
      [] file = "f.yaml" ->
            [origin_lla |-> <<41, None>>, waypoints |-> <<<<2, 2>>>>]
      [] OTHER ->
            [origin_lla |-> <<40, None>>, waypoints |-> <<<<9, 9>>>>]

\* The tab names of LoadMissionsDialog, in tab order.
TabNames(sel) == sel

\* self.selected_files[tab_name] = file_path on a dict kept as the list of
\* its items in insertion order: a present key keeps its place.
DictSet(d, key, value) ==
    IF \E i \in DOMAIN d : d[i][1] = key
    THEN [i \in DOMAIN d |-> IF d[i][1] = key THEN <<key, value>> ELSE d[i]]
    ELSE Append(d, <<key, value>>)

\* list(d.values())
DictValues(d) == [i \in DOMAIN d |-> d[i][2]]

\* d[key], for a key of d.
DictGet(d, key) == (CHOOSE i \in DOMAIN d : d[i][1] = key)
DictAt(d, key) == d[DictGet(d, key)][2]

RECURSIVE DictSetEach(_, _, _)
DictSetEach(d, keys, value) ==
    IF keys = <<>> THEN d
    ELSE DictSetEach(DictSet(d, Head(keys), value), Tail(keys), value)

\* ros_node.publish_origin and ros_node.publish_path: one message each.
OriginMsg(origin) == [topic |-> "origin", vehicle |-> NoNum, data |-> origin]
PathMsg(path, num) == [topic |-> "path", vehicle |-> num, data |-> path]

\* load_missions_button up to dlg.exec().
LoadMissionsButton ==
    /\ Step
    /\ dialog = NoDialog
    /\ SetUi(ConsoleDirectEach(
                ReplaceLabel(Ui, Text("Loading the missions...", "", NoNum),
                             "ui"),
                Text("Loading the missions...", "", NoNum),
                selected_vehicles))
    /\ dialog' = [handler |-> "load_missions_button", vehicle |-> NoNum,
                  selected_files |-> <<>>]
    /\ last_op' = Op("load_missions_button", NoNum, "exec")
    /\ UNCHANGED <<theme, delivered, fixed, outside, ui_queue, threads>>

\* browse_file(tab_name) with a file picked in the file dialog.
BrowseFile ==
    /\ Step
    /\ dialog.handler = "load_missions_button"
    /\ \E tab_name \in Range(TabNames(selected_vehicles)),
          file_path \in MissionFiles :
        /\ dialog' = [dialog EXCEPT !.selected_files =
                                        DictSet(@, tab_name, file_path)]
        /\ last_op' = Op("browse_file", tab_name, file_path)
    /\ UNCHANGED <<theme, delivered, fixed, outside, feedback_dict,
                   console_text, view, confirm_label, futures, ui_queue,
                   threads>>

\* apply_to_all with a file picked and the confirmation accepted.
ApplyToAll ==
    /\ Step
    /\ dialog.handler = "load_missions_button"
    /\ \E selected_file \in MissionFiles :
        /\ dialog' = [dialog EXCEPT !.selected_files =
                        DictSetEach(@, TabNames(selected_vehicles),
                                    selected_file)]
        /\ last_op' = Op("apply_to_all", NoNum, selected_file)
    /\ UNCHANGED <<theme, delivered, fixed, outside, feedback_dict,
                   console_text, view, confirm_label, futures, ui_queue,
                   threads>>

\* The Load button of the dialog (validate_and_accept) and what
\* load_missions_button does when dlg.exec() returns true; with a tab left
\* without a file the warning box is shown and the dialog stays open.
LoadMissionsAccept ==
    /\ Step
    /\ dialog.handler = "load_missions_button"
    /\ IF Len(dialog.selected_files) = Len(TabNames(selected_vehicles))
       THEN /\ Len(threads) < MaxThreads
            /\ dialog' = NoDialog
            /\ threads' = Append(threads,
                    [target |-> "deploy_in_thread", vehicle |-> NoNum,
                     selected_files |-> DictValues(dialog.selected_files),
                     chosen |-> dialog.selected_files])
            /\ last_op' = Op("load_missions_button", NoNum, "accepted")
       ELSE /\ UNCHANGED <<dialog, threads>>
            /\ last_op' = Op("validate_and_accept", NoNum, "Files Required")
    /\ UNCHANGED <<theme, delivered, fixed, outside, feedback_dict,
                   console_text, view, confirm_label, futures, ui_queue>>

\* The dialog is cancelled.
LoadMissionsCancel ==
    /\ Step
    /\ dialog.handler = "load_missions_button"
    /\ dialog' = NoDialog
    /\ SetUi(ReplaceLabel(
                ConsoleDirectEach(Ui,
                    Text("Mission Loading command was cancelled.", "", NoNum),
                    selected_vehicles),
                Text("Mission Loading command was cancelled.", "", NoNum),
                "ui"))
    /\ last_op' = Op("load_missions_button", NoNum, "rejected")
    /\ UNCHANGED <<theme, delivered, fixed, outside, ui_queue, threads>>

\* The local state of deploy_in_thread: origins, the origin_lat and
\* origin_long variables (<<>> while unbound), spec_paths_dict, what it
\* published, the console signals it emitted, the last text it put in the
\* confirmation label (<<>> for none) and whether an exception was raised.
DeployStart ==
    [origins |-> <<>>, origin |-> <<>>, spec_paths_dict |-> <<>>,
     published |-> <<>>, signals |-> <<>>, label |-> <<>>,
     raised |-> FALSE]

\* A warning of deploy_in_thread: console of each of vehicle_numbers, then
\* the confirmation label.
DeployWarn(acc, text, file, vehicle_numbers) ==
    [acc EXCEPT !.signals = @ \o ConsoleSignalEach(Text(text, file, NoNum),
                                                   vehicle_numbers),
                !.label = Text(text, file, NoNum)]

\* Lines 885-899: the origin of one file.
DeployOrigin(acc, file) ==
    LET origin_lla == MissionData(file).origin_lla IN
    IF origin_lla = <<>> THEN acc
    ELSE IF origin_lla[1] = None \/ origin_lla[2] = None
         THEN [acc EXCEPT !.origin = origin_lla]
         ELSE [acc EXCEPT !.origin = origin_lla,
                          !.origins = Append(@, origin_lla)]

DeployOriginWarn(acc, file, vehicle_number) ==
    LET origin_lla == MissionData(file).origin_lla IN
    IF origin_lla = <<>>
    THEN DeployWarn(acc, "Warning: File missing 'origin_lla' section.",
                    file, <<vehicle_number>>)
    ELSE IF origin_lla[1] = None \/ origin_lla[2] = None
         THEN DeployWarn(acc,
                "Warning: File missing latitude or longitude in 'origin_lla'.",
                file, <<vehicle_number>>)
         ELSE acc

\* Lines 901-911: the waypoints of one file.
DeployWaypoints(acc, file, vehicle_number) ==
    LET waypoints == MissionData(file).waypoints IN
    IF waypoints = <<>>
    THEN DeployWarn(acc, "Warning: File doesn't have waypoints.", file,
                    <<vehicle_number>>)
    ELSE [acc EXCEPT !.spec_paths_dict =
                        DictSet(@, vehicle_number, waypoints)]

\* The loop of lines 877-911 from index idx on.
RECURSIVE DeployLoop(_, _, _, _)
DeployLoop(acc, sel, selected_files, idx) ==
    IF idx > Len(sel) \/ acc.raised THEN acc
    ELSE IF idx > Len(selected_files) \/ selected_files[idx] \in Unreadable
         THEN [acc EXCEPT !.raised = TRUE]
         ELSE DeployLoop(
                DeployWaypoints(
                    DeployOriginWarn(DeployOrigin(acc, selected_files[idx]),
                                     selected_files[idx], sel[idx]),
                    selected_files[idx], sel[idx]),
                sel, selected_files, idx + 1)

\* Lines 913-923: the origin is published when the origins collected agree.
DeployPublishOrigin(acc, sel) ==
    IF acc.origins = <<>> THEN acc
    ELSE IF \E i \in DOMAIN acc.origins : acc.origins[i] # acc.origins[1]
         THEN DeployWarn(acc,
                "Warning: Not all mission files have the same origin.", "",
                sel)
         ELSE [acc EXCEPT !.published = Append(@, OriginMsg(acc.origin))]

\* Lines 925-932: one path per entry of spec_paths_dict.
DeployPublishPaths(acc, sel) ==
    IF acc.spec_paths_dict = <<>>
    THEN DeployWarn(acc, "Warning: No paths found in files.", "", sel)
    ELSE [acc EXCEPT !.published = @ \o
            [i \in DOMAIN acc.spec_paths_dict |->
                PathMsg(acc.spec_paths_dict[i][2],
                        acc.spec_paths_dict[i][1])]]

\* Lines 934-942: deploy.main returns or raises; the except clause.
DeployFinish(acc, sel, deploy_raises) ==
    IF acc.raised \/ deploy_raises
    THEN [acc EXCEPT
            !.raised = TRUE,
            !.label = Text("Mission loading failed", "", NoNum),
            !.signals = @ \o ConsoleSignalEach(
                            Text("Mission loading failed", "", NoNum), sel)]
    ELSE [acc EXCEPT !.label =
                        Text("Loading Mission Command Complete", "", NoNum)]

\* deploy_in_thread(selected_files) of load_missions_button, as a whole.
DeployInThreadResult(sel, selected_files, deploy_raises) ==
    LET looped == DeployLoop(DeployStart, sel, selected_files, 1) IN
    IF looped.raised THEN DeployFinish(looped, sel, FALSE)
    ELSE DeployFinish(
            DeployPublishPaths(DeployPublishOrigin(looped, sel), sel),
            sel, deploy_raises)

\* deploy_in_thread runs to its end on its worker thread.
DeployInThread ==
    /\ Step
    /\ \E i \in DOMAIN threads, deploy_raises \in BOOLEAN :
        /\ threads[i].target = "deploy_in_thread"
        /\ LET acc == DeployInThreadResult(selected_vehicles,
                            threads[i].selected_files, deploy_raises)
           IN /\ published' = published \o acc.published
              /\ ui_queue' = ui_queue \o acc.signals
              /\ confirm_label' = [text |-> acc.label, thread |-> "worker"]
              /\ last_op' = OpWith("deploy_in_thread", NoNum,
                                   IF acc.raised THEN "exception" ELSE "done",
                                   threads[i].chosen)
        /\ threads' = RemoveAt(threads, i)
    /\ UNCHANGED <<theme, delivered, fixed, uncaught, config_window, fins,
                   feedback_dict, console_text, view, futures, dialog>>

\* ----------------------------------------------------------- Start Missions
\* start_missions_button up to dlg.exec().
StartMissionsButton ==
    /\ Step
    /\ dialog = NoDialog
    /\ SetUi(ConsoleDirectEach(
                ReplaceLabel(Ui, Text("Starting all missions...", "", NoNum),
                             "ui"),
                Text("Starting the missions...", "", NoNum),
                selected_vehicles))
    /\ dialog' = [handler |-> "start_missions_button", vehicle |-> NoNum]
    /\ last_op' = Op("start_missions_button", NoNum, "exec")
    /\ UNCHANGED <<theme, delivered, fixed, outside, ui_queue, threads>>

\* start_missions_button after dlg.exec(): the thread is started, or the
\* cancellation is reported.
StartMissionsDialogDone ==
    /\ Step
    /\ dialog.handler = "start_missions_button"
    /\ dialog' = NoDialog
    /\ \/ /\ Len(threads) < MaxThreads
          /\ threads' = Append(threads, [target |-> "start_missions",
                                         vehicle |-> NoNum])
          /\ last_op' = Op("start_missions_button", NoNum, "accepted")
          /\ UNCHANGED <<feedback_dict, console_text, view, confirm_label,
                         futures>>
       \/ /\ SetUi(ReplaceLabel(
                    ConsoleDirectEach(Ui,
                        Text("Starting All Missions command was cancelled.",
                             "", NoNum),
                        selected_vehicles),
                    Text("Starting All Missions command was cancelled.", "",
                         NoNum),
                    "ui"))
          /\ last_op' = Op("start_missions_button", NoNum, "rejected")
          /\ UNCHANGED threads
    /\ UNCHANGED <<theme, delivered, fixed, outside, ui_queue>>

\* deploy_in_thread(start_config) of start_missions_button on its worker
\* thread: startup_call.publish_system_control returns or raises.
StartMissionsInThread ==
    /\ Step
    /\ \E i \in DOMAIN threads :
        /\ threads[i].target = "start_missions"
        /\ threads' = RemoveAt(threads, i)
    /\ \/ /\ published' = Append(published,
                [topic |-> "system_control", vehicle |-> NoNum,
                 data |-> selected_vehicles])
          /\ confirm_label' =
                [text |-> Text("Starting Mission Command Complete", "", NoNum),
                 thread |-> "worker"]
          /\ last_op' = Op("start_missions", NoNum, "done")
          /\ UNCHANGED ui_queue
       \/ /\ confirm_label' =
                [text |-> Text("Mission starting failed", "", NoNum),
                 thread |-> "worker"]
          /\ ui_queue' = ui_queue \o ConsoleSignalEach(
                            Text("Mission starting failed", "", NoNum),
                            selected_vehicles)
          /\ last_op' = Op("start_missions", NoNum, "exception")
          /\ UNCHANGED published
    /\ UNCHANGED <<theme, delivered, fixed, uncaught, config_window, fins,
                   feedback_dict, console_text, view, futures, dialog>>

\* ------------------------------------------------------ vehicle calibration
\* run_calibrate_script(vehicle_number): the "Calibrate" buttons, 0 from
\* the general tab and the vehicle's number from its own tab.
RunCalibrateScript ==
    /\ Step
    /\ dialog = NoDialog
    /\ Len(threads) < MaxThreads
    /\ \E vehicle_number \in {0} \cup Range(selected_vehicles) :
        /\ threads' = Append(threads,
                [target |-> "run_calibrate_script_threaded",
                 vehicle |-> vehicle_number])
        /\ last_op' = Op("run_calibrate_script", vehicle_number, "")
    /\ UNCHANGED <<theme, delivered, fixed, outside, feedback_dict,
                   console_text, view, confirm_label, futures, ui_queue,
                   dialog>>

\* run_calibrate_script_threaded(vehicle_number) on its worker thread:
\* calibrate.main returns, or raises with no handler in the thread.
RunCalibrateScriptThreaded ==
    /\ Step
    /\ \E i \in DOMAIN threads :
        /\ threads[i].target = "run_calibrate_script_threaded"
        /\ threads' = RemoveAt(threads, i)
        /\ \/ /\ UNCHANGED uncaught
              /\ last_op' = Op("run_calibrate_script_threaded",
                               threads[i].vehicle, "done")
           \/ /\ uncaught' = Append(uncaught, threads[i].target)
              /\ last_op' = Op("run_calibrate_script_threaded",
                               threads[i].vehicle, "exception")
    /\ UNCHANGED <<theme, delivered, fixed, published, config_window, fins,
                   feedback_dict, console_text, view, confirm_label,
                   futures, ui_queue, dialog>>

\* ------------------------------------------------------ console scrolling
\* The LayoutRequest posted by label.setText reaches the scroll area of
\* `vehicle`: the scroll bar takes the range of the new content and keeps
\* its value, cut to the range.
LayoutView(w, n) ==
    [w EXCEPT !.maximum = ContentMax(n),
              !.value = IF @ > ContentMax(n) THEN ContentMax(n) ELSE @]

Layout ==
    /\ Step
    /\ \E vehicle \in DOMAIN view :
        /\ view[vehicle].maximum # ContentMax(Len(console_text[vehicle]))
        /\ view' = [view EXCEPT ![vehicle] =
                        LayoutView(@, Len(console_text[vehicle]))]
        /\ last_op' = Op("LayoutRequest", vehicle, "")
    /\ UNCHANGED <<theme, delivered, fixed, outside, feedback_dict,
                   console_text, confirm_label, futures, ui_queue, threads,
                   dialog>>

\* maybe_scroll of the oldest single-shot timer of a scroll area; posted
\* events are delivered before timers, so the layout is up to date.
MaybeScroll ==
    /\ Step
    /\ \E vehicle \in DOMAIN view :
        /\ view[vehicle].timers # <<>>
        /\ view[vehicle].maximum = ContentMax(Len(console_text[vehicle]))
        /\ LET at_bottom == Head(view[vehicle].timers) IN
            /\ view' = [view EXCEPT
                    ![vehicle].timers = Tail(@),
                    ![vehicle].value = IF at_bottom
                                       THEN view[vehicle].maximum ELSE @]
            /\ last_op' = Op("maybe_scroll", vehicle,
                             IF at_bottom THEN "at_bottom"
                                          ELSE "not at_bottom")
    /\ UNCHANGED <<theme, delivered, fixed, outside, feedback_dict,
                   console_text, confirm_label, futures, ui_queue, threads,
                   dialog>>

\* Where the operator can leave the scroll bar: the top, the bottom, one
\* pixel above the bottom.
ScrollPositions(w) ==
    {p \in {0, w.maximum - 1, w.maximum} : p >= 0 /\ p # w.value}

\* The operator drags the scroll bar of a console.
OperatorScroll ==
    /\ Step
    /\ \E vehicle \in DOMAIN view :
        \E p \in ScrollPositions(view[vehicle]) :
            /\ view' = [view EXCEPT ![vehicle].value = p]
            /\ last_op' = Op("operator scrolls", vehicle, "")
    /\ UNCHANGED <<theme, delivered, fixed, outside, feedback_dict,
                   console_text, confirm_label, futures, ui_queue, threads,
                   dialog>>

\* ---------------------------------------------------- ConfigurationWindow
MAX_VEHICLES == 4
HIGHEST_VEHICLE_LABEL == 999

\* The numbers of the checkboxes "Vehicle 1" .. "Vehicle 4" of OpenWindow.
CheckboxNumbers == 1..4

\* What the operator types in a custom input.
CustomTexts == {"", " ", "0", " 2 ", "999", "1000", "-1", "abc", "1.5"}

\* le.text().strip()
Strip(text) ==
    CASE text = " " -> ""
      [] text = " 2 " -> "2"
      [] OTHER -> text

\* int(value) on a stripped text: <<n>>, or <<>> for a ValueError.
IntOf(value) ==
    CASE value = "0" -> <<0>>
      [] value = "2" -> <<2>>
      [] value = "999" -> <<999>>
      [] value = "1000" -> <<1000>>
      [] value = "-1" -> <<-1>>
      [] OTHER -> <<>>

\* An element of the list get_states returns: an int, or the text that
\* int() refused.
IntEntry(num) == [is_int |-> TRUE, num |-> num, text |-> ""]
TextEntry(text) == [is_int |-> FALSE, num |-> 0, text |-> text]

\* The checked checkboxes, in the order of the options.
RECURSIVE CheckedEntries(_, _)
CheckedEntries(checked, n) ==
    IF n > 4 THEN <<>>
    ELSE (IF n \in checked THEN <<IntEntry(n)>> ELSE <<>>)
            \o CheckedEntries(checked, n + 1)

\* The custom inputs that are not blank.
RECURSIVE CustomEntries(_)
CustomEntries(custom_inputs) ==
    IF custom_inputs = <<>> THEN <<>>
    ELSE LET value == Strip(Head(custom_inputs)) IN
         (IF value = "" THEN <<>>
          ELSE IF IntOf(value) # <<>> THEN <<IntEntry(IntOf(value)[1])>>
          ELSE <<TextEntry(value)>>)
            \o CustomEntries(Tail(custom_inputs))

\* ConfigurationWindow.get_states
GetStates(w) == CheckedEntries(w.checked, 1) \o CustomEntries(w.custom_inputs)

\* validate_and_accept without the test of the range of the numbers.
Validate_any_number(states) ==
    IF states = <<>> THEN "Selection Required"
    ELSE IF Len(states) > MAX_VEHICLES THEN "Max Vehicle Limit Reached"
    ELSE IF Len(states) # Cardinality(Range(states))
         THEN "Duplicate Vehicles"
    ELSE IF \E i \in DOMAIN states : ~states[i].is_int
         THEN "Invalid Custom"
    ELSE "accept"

\* The outcome of validate_and_accept on the list of get_states: the title
\* of the warning box, or "accept".
Validate(states) ==
    IF states = <<>> THEN "Selection Required"
    ELSE IF Len(states) > MAX_VEHICLES THEN "Max Vehicle Limit Reached"
    ELSE IF Len(states) # Cardinality(Range(states))
         THEN "Duplicate Vehicles"
    ELSE IF \E i \in DOMAIN states : ~states[i].is_int
         THEN "Invalid Custom"
    ELSE IF \E i \in DOMAIN states :
                \/ states[i].num > HIGHEST_VEHICLE_LABEL
                \/ states[i].num < 0
         THEN "Invalid Vehicle Number"
    ELSE "accept"

\* The dialog as OpenWindow shows it.
OpenConfigWindow ==
    [open |-> TRUE, checked |-> {}, custom_inputs |-> <<>>,
     warning |-> "", result |-> <<>>]

\* What the selection dialog leaves alone: the window does not exist yet.
window == <<selected_vehicles, deploy_config, Vehicle_IP_addresses,
            ip_to_vehicle,
            feedback_dict, console_text, view, confirm_label, futures,
            ui_queue, threads, dialog, color_theme, colors, published,
            uncaught, fins, delivered>>

\* The operator clicks a checkbox.
ToggleCheckbox ==
    /\ Step
    /\ config_window.open
    /\ \E n \in CheckboxNumbers :
        /\ config_window' = [config_window EXCEPT
                !.checked = IF n \in @ THEN @ \ {n} ELSE @ \cup {n},
                !.warning = ""]
        /\ last_op' = Op("checkbox", n, "")
    /\ UNCHANGED window

\* add_custom_input: the "+" button, and the text the operator types in
\* the new input.
AddCustomInput ==
    /\ Step
    /\ config_window.open
    /\ IF Cardinality(config_window.checked)
            + Len(config_window.custom_inputs) >= MAX_VEHICLES
       THEN /\ config_window' = [config_window EXCEPT
                                    !.warning = "Limit Reached"]
            /\ last_op' = Op("add_custom_input", NoNum, "Limit Reached")
       ELSE \E text \in CustomTexts :
            /\ config_window' = [config_window EXCEPT
                                    !.custom_inputs = Append(@, text),
                                    !.warning = ""]
            /\ last_op' = Op("add_custom_input", NoNum, text)
    /\ UNCHANGED window

\* validate_and_accept: the Ok button.  Accepted, exec() returns and
\* OpenWindow takes get_states() as the selection.
ValidateAndAccept ==
    /\ Step
    /\ config_window.open
    /\ LET states == GetStates(config_window) IN
        /\ config_window' =
            IF Validate(states) = "accept"
            THEN [config_window EXCEPT
                    !.open = FALSE, !.warning = "",
                    !.result = [i \in DOMAIN states |-> states[i].num]]
            ELSE [config_window EXCEPT !.warning = Validate(states)]
        /\ last_op' = OpWith("validate_and_accept", NoNum, Validate(states),
                             states)
    /\ UNCHANGED window

\* ------------------------------------------------------- CalibrateFinsDialog
\* The two publish-target checkboxes of a tab and pub_types[vehicle_num] at
\* the end of CalibrateFinsDialog.__init__; emits counts the stateChanged
\* signals of the last click and cut tells that they were not followed to
\* the end.
InitBoxes ==
    [kinematics |-> TRUE, controls |-> FALSE, pub_type |-> 1, emits |-> 0,
     cut |-> FALSE]

OtherBox(box) == IF box = "kinematics" THEN "controls" ELSE "kinematics"

\* SetChecked with a box that signals every call, changed or not.
RECURSIVE SetChecked_every_call(_, _, _, _)
SetChecked_every_call(b, box, checked, fuel) ==
    IF fuel = 0 THEN [b EXCEPT !.cut = TRUE]
    ELSE LET changed == [b EXCEPT ![box] = checked, !.emits = @ + 1]
             exclusive == SetChecked_every_call(changed, OtherBox(box),
                                                ~checked, fuel - 1)
         IN IF checked
            THEN [exclusive EXCEPT
                    !.pub_type = IF box = "kinematics" THEN 1 ELSE 0]
            ELSE exclusive

\* QCheckBox.setChecked(checked) on `box` with the slots connected to its
\* stateChanged signal: nothing when the state is already `checked`; else
\* the slot of make_exclusive sets the other box to the opposite, then the
\* slot of __init__ calls set_pub_type when the box became checked.
RECURSIVE SetChecked(_, _, _, _)
SetChecked(b, box, checked, fuel) ==
    IF b[box] = checked THEN b
    ELSE IF fuel = 0 THEN [b EXCEPT !.cut = TRUE]
    ELSE LET changed == [b EXCEPT ![box] = checked, !.emits = @ + 1]
             exclusive == SetChecked(changed, OtherBox(box), ~checked,
                                     fuel - 1)
         IN IF checked
            THEN [exclusive EXCEPT
                    !.pub_type = IF box = "kinematics" THEN 1 ELSE 0]
            ELSE exclusive

\* The operator clicks a publish-target checkbox.
ClickBox(b, box) ==
    SetChecked([b EXCEPT !.emits = 0], box, ~b[box], MaxCascade)

\* ---------------------------------------------------------- fin calibration
\* Vehicle ids fin calibration is run with: ids of one and of two digits.
FinVehicleIds == {1, 2, 12}

FinSelectableLists ==
    {s \in UNION {[1..n -> FinVehicleIds] : n \in 1..MaxSelected} :
        IsInjective(s)}

\* The local file coug<n>_params.yaml: missing, not loadable by yaml (or
\* empty), without the kinematics of coug<n>, or valid with its three fin
\* offsets <<top, right, left>>.
ParamFile(kind, offsets) == [kind |-> kind, offsets |-> offsets]

ParamFileKinds == {"missing", "unparsable", "nokey", "valid"}

\* The offsets in a valid local file and in the remote file of a vehicle,
\* and those of the template vehicle_params.yaml.
LocalOffsets(vehicle_num) == <<vehicle_num, 0, 0>>
RemoteOffsets(vehicle_num) == <<0, vehicle_num, 0>>
TemplateOffsets == <<0, 0, 0>>

ParamFiles ==
    {[n \in FinVehicleIds |->
        ParamFile(kinds[n],
                  IF kinds[n] = "valid" THEN LocalOffsets(n) ELSE <<>>)] :
        kinds \in [FinVehicleIds -> ParamFileKinds]}

\* load_vehicle_kinematics_params(vehicle_num) on readable files: the pair
\* (vehicle_kinematics, base_kinematics), None being <<>>.
LoadVehicleKinematicsParams(files, remote_ok, vehicle_num) ==
    <<IF remote_ok THEN RemoteOffsets(vehicle_num) ELSE <<>>,
      IF files[vehicle_num].kind = "valid"
      THEN files[vehicle_num].offsets ELSE <<>>>>

\* create_new_param_file(vehicle_num): the template written as the file of
\* the vehicle, and the console line.
CreateNewParamFile(acc, vehicle_num) ==
    [acc EXCEPT
        !.files[vehicle_num] = ParamFile("valid", TemplateOffsets),
        !.signals = Append(@, ConsoleSignal(
                        Text("Created new param file for Vehicle", "",
                             vehicle_num), vehicle_num))]

\* RunVehicle without the fallback to the local file.
RunVehicle_remote_only(acc, vehicle_num, remote_ok) ==
    IF acc.files[vehicle_num].kind = "unparsable"
    THEN [acc EXCEPT !.raised = TRUE]
    ELSE LET params == LoadVehicleKinematicsParams(acc.files, remote_ok,
                                                   vehicle_num)
             found == [acc EXCEPT !.params_found_dict =
                            DictSet(@, vehicle_num, params)]
         IN IF params[1] # <<>>
            THEN [found EXCEPT !.vehicle_params_dict =
                        DictSet(@, vehicle_num, params[1])]
            ELSE found

\* One pass of the first loop of CalibrateFinsWorker.run.
RunVehicle(acc, vehicle_num, remote_ok) ==
    IF acc.files[vehicle_num].kind = "unparsable"
    THEN [acc EXCEPT !.raised = TRUE]
    ELSE LET params == LoadVehicleKinematicsParams(acc.files, remote_ok,
                                                   vehicle_num)
             found == [acc EXCEPT
                        !.params_found_dict = DictSet(@, vehicle_num, params),
                        !.label = IF remote_ok THEN @
                                  ELSE Text("Failed to read remote params",
                                            "", NoNum)]
         IN IF params[1] # <<>>
            THEN LET kept == [found EXCEPT !.vehicle_params_dict =
                                    DictSet(@, vehicle_num, params[1])]
                 IN IF params[2] = <<>>
                    THEN CreateNewParamFile(kept, vehicle_num)
                    ELSE kept
            ELSE IF params[2] # <<>>
            THEN [found EXCEPT !.vehicle_params_dict =
                        DictSet(@, vehicle_num, params[2])]
            ELSE LET created == CreateNewParamFile(found, vehicle_num)
                     again == LoadVehicleKinematicsParams(
                                    created.files, remote_ok, vehicle_num)
                 IN IF again[2] # <<>>
                    THEN [created EXCEPT !.vehicle_params_dict =
                                DictSet(@, vehicle_num, again[2])]
                    ELSE created

RECURSIVE RunLoop(_, _, _, _)
RunLoop(acc, sel, remote, idx) ==
    IF idx > Len(sel) \/ acc.raised THEN acc
    ELSE RunLoop(RunVehicle(acc, sel[idx], remote[sel[idx]]), sel, remote,
                 idx + 1)

\* The second loop of run: the keys of params_found_dict whose item of the
\* pair (1 the vehicle's, 2 the base's) is None, in the order of the dict.
RECURSIVE ParamsProblems(_, _)
ParamsProblems(found, item) ==
    IF found = <<>> THEN <<>>
    ELSE (IF Head(found)[2][item] = <<>> THEN <<Head(found)[1]>> ELSE <<>>)
            \o ParamsProblems(Tail(found), item)

\* CalibrateFinsWorker.run as a whole, remote[v] telling whether ssh gives
\* the kinematics of vehicle v.
WorkerRunResult(files, sel, remote) ==
    RunLoop([files |-> files, vehicle_params_dict |-> <<>>,
             params_found_dict |-> <<>>, signals |-> <<>>, label |-> <<>>,
             raised |-> FALSE],
            sel, remote, 1)

\* The "Calibrate Fins" button: calibrate_fins shows the loading dialog and
\* starts the worker.
CalibrateFins ==
    /\ Step
    /\ dialog = NoDialog
    /\ Len(threads) < MaxThreads
    /\ threads' = Append(threads, [target |-> "CalibrateFinsWorker.run",
                                   vehicle |-> NoNum])
    /\ last_op' = Op("calibrate_fins", NoNum, "")
    /\ UNCHANGED <<theme, delivered, fixed, outside, feedback_dict,
                   console_text, view, confirm_label, futures, ui_queue,
                   dialog>>

\* CalibrateFinsWorker.run on its thread: the finished signal is emitted, or
\* an exception of yaml leaves run.
CalibrateFinsWorkerRun ==
    /\ Step
    /\ \E i \in DOMAIN threads :
        /\ threads[i].target = "CalibrateFinsWorker.run"
        /\ threads' = RemoveAt(threads, i)
    /\ \E remote \in [Range(selected_vehicles) -> BOOLEAN] :
        LET acc == WorkerRunResult(fins.files, selected_vehicles, remote) IN
        /\ fins' = [fins EXCEPT !.files = acc.files]
        /\ confirm_label' = IF acc.label = <<>> THEN confirm_label
                            ELSE [text |-> acc.label, thread |-> "worker"]
        /\ IF acc.raised
           THEN /\ ui_queue' = ui_queue \o acc.signals
                /\ uncaught' = Append(uncaught, "CalibrateFinsWorker.run")
                /\ last_op' = OpWith("CalibrateFinsWorker.run", NoNum,
                                     "exception", remote)
           ELSE /\ ui_queue' = ui_queue \o acc.signals \o
                    <<[sig |-> "finished",
                       vehicle_params_dict |-> acc.vehicle_params_dict,
                       params_found_dict |-> acc.params_found_dict,
                       base_params_problems |->
                            ParamsProblems(acc.params_found_dict, 2),
                       vehicle_params_problems |->
                            ParamsProblems(acc.params_found_dict, 1)]>>
                /\ uncaught' = uncaught
                /\ last_op' = OpWith("CalibrateFinsWorker.run", NoNum,
                                     "finished", remote)
    /\ UNCHANGED <<theme, delivered, fixed, published, config_window,
                   feedback_dict, console_text, view, futures, dialog>>

\* The slider values of a new tab: 0 without vehicle_init_params, else the
\* three offsets of the vehicle.
InitSliders(vehicle_init_params, vehicle_num) ==
    IF vehicle_init_params = <<>> THEN <<0, 0, 0>>
    ELSE DictAt(vehicle_init_params, vehicle_num)

\* after_worker up to dlg.exec(): the console lines, then the dialog with a
\* tab per selected vehicle; a KeyError of __init__ leaves the slot when a
\* vehicle has no entry in a non-empty vehicle_params_dict.
AfterWorker ==
    /\ Step
    /\ dialog = NoDialog
    /\ ui_queue # <<>>
    /\ Head(ui_queue).sig = "finished"
    /\ ui_queue' = Tail(ui_queue)
    /\ SetUi(ConsoleDirectEach(Ui,
                Text("Loading Fin Calibration Window...", "", NoNum),
                selected_vehicles))
    /\ LET params == Head(ui_queue).vehicle_params_dict IN
       IF params # <<>>
            /\ \E v \in Range(selected_vehicles) :
                \A i \in DOMAIN params : params[i][1] # v
       THEN /\ uncaught' = Append(uncaught, "after_worker")
            /\ UNCHANGED <<fins, dialog>>
            /\ last_op' = OpWith("after_worker", NoNum, "exception",
                                 Head(ui_queue))
       ELSE /\ fins' = [fins EXCEPT
                    !.tabs = selected_vehicles,
                    !.sliders = [v \in Range(selected_vehicles) |->
                                    InitSliders(params, v)],
                    !.boxes = [v \in Range(selected_vehicles) |-> InitBoxes]]
            /\ dialog' = [handler |-> "calibrate_fins", vehicle |-> NoNum]
            /\ uncaught' = uncaught
            /\ last_op' = OpWith("after_worker", NoNum, "exec",
                                 Head(ui_queue))
    /\ UNCHANGED <<theme, delivered, fixed, published, config_window,
                   threads>>

\* The operator clicks one of the two publish-target checkboxes of a tab.
ClickPubTypeBox ==
    /\ Step
    /\ dialog.handler = "calibrate_fins"
    /\ \E v \in Range(fins.tabs), box \in {"kinematics", "controls"} :
        /\ fins' = [fins EXCEPT !.boxes[v] = ClickBox(@, box)]
        /\ last_op' = Op("stateChanged", v, box)
    /\ UNCHANGED <<theme, delivered, fixed, published, uncaught,
                   config_window, feedback_dict, console_text, view,
                   confirm_label, futures, ui_queue, threads, dialog>>

\* The value the operator moves a slider to, and the fins 1..3 of fin_dict.
SliderValues == {7}
FinNumbers == 1..3

\* ros_node.publish_fins(fins_out, vehicle_num, pub_type): one message.
FinsMsg(fin_values, vehicle_num, pub_type) ==
    [topic |-> IF pub_type = 1 THEN "kinematics/command"
               ELSE "controls/command",
     vehicle |-> vehicle_num, data |-> fin_values]

\* The operator moves a slider: valueChanged -> _handle_slider_change ->
\* publish_fins with the values of the tab and pub_types[vehicle_num].
MoveSlider ==
    /\ Step
    /\ dialog.handler = "calibrate_fins"
    /\ \E v \in Range(fins.tabs), i \in FinNumbers, val \in SliderValues :
        /\ fins.sliders[v][i] # val
        /\ fins' = [fins EXCEPT !.sliders[v][i] = val]
        /\ published' = Append(published,
                FinsMsg([fins.sliders[v] EXCEPT ![i] = val], v,
                        fins.boxes[v].pub_type))
        /\ last_op' = Op("valueChanged", v, "")
    /\ UNCHANGED <<theme, delivered, fixed, uncaught, config_window,
                   feedback_dict, console_text, view, confirm_label,
                   futures, ui_queue, threads, dialog>>

\* tab_name[-1] of the tab "Vehicle <vehicle_num>", read as a number by
\* int(key) and by the file name coug<key>_params.yaml.
TabKey(vehicle_num) == vehicle_num % 10

\* CalibrateFinsDialog.get_states(): the dict from tab_name[-1] to the
\* slider values of the tab, filled in tab order.
RECURSIVE GetFinStates(_, _)
GetFinStates(tabs, sliders) ==
    IF tabs = <<>> THEN <<>>
    ELSE DictSet(GetFinStates(SubSeq(tabs, 1, Len(tabs) - 1), sliders),
                 TabKey(tabs[Len(tabs)]), sliders[tabs[Len(tabs)]])

\* One pass of the loop of after_worker over fin_states.items(): the file
\* coug<key>_params.yaml is rewritten (open raises when it is missing), the
\* three parameters are set and two console lines are written.
SaveFins(acc, key, states) ==
    IF acc.fins.files[key].kind = "missing"
    THEN [acc EXCEPT !.raised = TRUE]
    ELSE [acc EXCEPT
            !.fins.files[key] =
                IF @.kind = "valid" THEN ParamFile("valid", states) ELSE @,
            !.fins.saved = Append(@, [file |-> key, offsets |-> states]),
            !.fins.parameters =
                Append(@, [vehicle |-> key, offsets |-> states]),
            !.u = ConsoleDirect(
                    ConsoleDirect(@,
                        Text("Vehicle Kinematics param set", "", NoNum), key),
                    Text("Fin Calibration Saved to Params", "", NoNum), key)]

RECURSIVE SaveLoop(_, _)
SaveLoop(acc, fin_states) ==
    IF fin_states = <<>> \/ acc.raised THEN acc
    ELSE SaveLoop(SaveFins(acc, Head(fin_states)[1], Head(fin_states)[2]),
                  Tail(fin_states))

\* after_worker once dlg.exec() has returned: "Save Changes To Params", or
\* the dialog closed.
FinsDialogDone ==
    /\ Step
    /\ dialog.handler = "calibrate_fins"
    /\ dialog' = NoDialog
    /\ \/ LET fin_states == GetFinStates(fins.tabs, fins.sliders)
              acc == SaveLoop([fins |-> fins, u |-> Ui, raised |-> FALSE],
                              fin_states)
          IN /\ fins' = [acc.fins EXCEPT !.tabs = <<>>]
             /\ SetUi(acc.u)
             /\ uncaught' = IF acc.raised
                            THEN Append(uncaught, "after_worker")
                            ELSE uncaught
             /\ last_op' = OpWith("after_worker", NoNum,
                                  IF acc.raised THEN "exception"
                                                ELSE "accepted",
                                  fins)
       \/ /\ SetUi(ConsoleDirectEach(Ui,
                    Text("Canceling Fin Calibration", "", NoNum),
                    selected_vehicles))
          /\ fins' = [fins EXCEPT !.tabs = <<>>]
          /\ uncaught' = uncaught
          /\ last_op' = OpWith("after_worker", NoNum, "rejected", fins)
    /\ UNCHANGED <<theme, delivered, fixed, published, config_window,
                   ui_queue, threads>>

\* ------------------------------------------------------------ specification
Next ==
    \/ PingVehiclesViaWifi
    \/ DoPing
    \/ DeliverWifi
    \/ DeliverConsole
    \/ HandleConsoleLog
    \/ EmergencyButton
    \/ EmergencyDialogDone
    \/ HandleServiceResponse
    \/ SpecCopyBags
    \/ RunSyncBags
    \/ DeliverDepth
    \/ DeliverPressure
    \/ DeliverBattery
    \/ DeliverSafetyStatus
    \/ DeliverConnections
    \/ SetColorTheme
    \/ ClearConsole
    \/ ClearConsoleDialogDone

Spec == Init /\ [][Next]_vars

\* The wifi prober on its own, long enough for a vehicle to be reported
\* twice: timer tick, probe thread, delivery of the report.
InitWifi == InitWith(MaxSteps)

NextWifi ==
    \/ PingVehiclesViaWifi
    \/ DoPing
    \/ DeliverWifi

SpecWifi == InitWifi /\ [][NextWifi]_vars

\* The command dispatcher and the console on their own, long enough for a
\* request to be confirmed, answered and its console lines delivered.
InitCommand == InitWith(CommandSteps)

NextCommand ==
    \/ DeliverConsole
    \/ HandleConsoleLog
    \/ EmergencyButton
    \/ EmergencyDialogDone
    \/ HandleServiceResponse
    \/ SpecCopyBags
    \/ RunSyncBags

SpecCommand == InitCommand /\ [][NextCommand]_vars

\* =================================================================== claims
\* Futures created by the step, in call order.
NewFutures == SubSeq(futures', Len(futures) + 1, Len(futures'))

\* Signals posted to the UI thread by the step, in emission order.
NewSignals == SubSeq(ui_queue', Len(ui_queue) + 1, Len(ui_queue'))

\* The step is the delivery of a probe report to update_wifi_widgets.
WifiReportStep == last_op'.op = "update_wifi_widgets"

\* The items of the report being delivered that name a known vehicle, each
\* with the reachability stored for the vehicle before the delivery.
ReportedVehicles ==
    LET IPs_dict == Head(ui_queue).IPs_dict
    IN {[vehicle |-> ip_to_vehicle[IPs_dict[i].ip],
         reachable |-> IPs_dict[i].reachable,
         stored |-> feedback_dict["Wifi"][ip_to_vehicle[IPs_dict[i].ip]]] :
            i \in {j \in DOMAIN IPs_dict :
                        IPs_dict[j].ip \in DOMAIN ip_to_vehicle}}

ModemRequestsFor(V) ==
    {j \in DOMAIN NewFutures :
        /\ NewFutures[j].client = "cli3"
        /\ NewFutures[j].request.vehicle_id = V}

\* C1: when a probe report changes the stored Wifi status of vehicle V from
\* 0 to 1, update_wifi_widgets issues exactly one modem request for V and it
\* is a shutoff request (modem_shut_off true, vehicle_id V); when it changes
\* the status from 1 to 0 it issues exactly one request for V and it is a
\* power-on request (modem_shut_off false); every modem request of the
\* delivery is for a vehicle whose status the report changed.
C1_ModemRequestOnTransition ==
    [][WifiReportStep =>
        /\ \A r \in ReportedVehicles :
            /\ (r.stored = Negative /\ r.reachable = Positive) =>
                    /\ Cardinality(ModemRequestsFor(r.vehicle)) = 1
                    /\ \A j \in ModemRequestsFor(r.vehicle) :
                        NewFutures[j].request
                            = ModemControlRequest(TRUE, r.vehicle)
            /\ (r.stored = Positive /\ r.reachable = Negative) =>
                    /\ Cardinality(ModemRequestsFor(r.vehicle)) = 1
                    /\ \A j \in ModemRequestsFor(r.vehicle) :
                        NewFutures[j].request
                            = ModemControlRequest(FALSE, r.vehicle)
        /\ \A j \in DOMAIN NewFutures :
            \E r \in ReportedVehicles :
                /\ r.vehicle = NewFutures[j].request.vehicle_id
                /\ r.stored # r.reachable]_vars

\* Two reports have been delivered: one vehicle went from unreachable to
\* reachable, so that its power-on request is followed by its shutoff
\* request, and one vehicle went the other way.
C1_Witness ==
    /\ last_op.op = "update_wifi_widgets"
    /\ \E V, W \in Range(selected_vehicles) :
        /\ feedback_dict["Wifi"][V] = Positive
        /\ feedback_dict["Wifi"][W] = Negative
        /\ \E i, j \in DOMAIN futures :
            /\ i < j
            /\ futures[i].request = ModemControlRequest(FALSE, V)
            /\ futures[j].request = ModemControlRequest(TRUE, V)
        /\ \E i, j \in DOMAIN futures :
            /\ i < j
            /\ futures[i].request = ModemControlRequest(TRUE, W)
            /\ futures[j].request = ModemControlRequest(FALSE, W)

\* C2: when a probe report gives vehicle V the reachability already stored
\* for it, the delivery issues no modem request for V, leaves the console
\* log of V as it was and leaves every Status Store entry of V as it was.
C2_NoChangeNoEffect ==
    [][WifiReportStep =>
        \A r \in ReportedVehicles :
            r.stored = r.reachable =>
                /\ ModemRequestsFor(r.vehicle) = {}
                /\ console_text'[r.vehicle] = console_text[r.vehicle]
                /\ \A k \in MetricKeys :
                    feedback_dict'[k][r.vehicle]
                        = feedback_dict[k][r.vehicle]]_vars

\* The console labels once the event loop has delivered `signals`, in order,
\* to _update_console_gui.
RECURSIVE ApplySignals(_, _)
ApplySignals(console, signals) ==
    IF signals = <<>> THEN console
    ELSE ApplySignals(
            UpdateConsoleGui(console, selected_vehicles, Head(signals).msg,
                             Head(signals).vehicle),
            Tail(signals))

\* The vehicles a response for `vehicle_number` concerns.
AffectedVehicles(vehicle_number) ==
    IF vehicle_number = 0 THEN Range(selected_vehicles)
    ELSE {vehicle_number} \cap Range(selected_vehicles)

\* The step is the done-callback of a call that raised or answered
\* success = false.
FailedResponseStep ==
    /\ last_op'.op = "handle_service_response"
    /\ last_op'.arg \in {"failed", "exception"}

DialogAnswered(answer) ==
    /\ last_op'.op \in EmergencyHandlers
    /\ last_op'.arg = answer

\* C4: a step creates a shutdown or surface request only when the operator
\* accepts the confirmation dialog of that button, the request is the only
\* one created and carries beacon_id V for the vehicle V of the button; when
\* the operator declines, no request is created, the confirmation label
\* shows the cancel text and the cancel line is appended to the console of V.
C4_EmergencyBehindDialog ==
    [][/\ (\E j \in DOMAIN NewFutures :
                NewFutures[j].client \in {"cli", "cli2"})
            => /\ dialog.handler \in EmergencyHandlers
               /\ DialogAnswered("accepted")
       /\ DialogAnswered("accepted") =>
            /\ Len(NewFutures) = 1
            /\ NewFutures[1].request = [beacon_id |-> dialog.vehicle]
            /\ NewFutures[1].client
                    = (IF dialog.handler = "emergency_shutdown_button"
                       THEN "cli" ELSE "cli2")
       /\ DialogAnswered("rejected") =>
            /\ futures' = futures
            /\ confirm_label'.text[1] = "Canceling command"
            /\ Len(console_text'[dialog.vehicle])
                    = Len(console_text[dialog.vehicle]) + 1
            /\ LET log == console_text'[dialog.vehicle]
               IN /\ log[Len(log)][1] = "Canceling for Vehicle"
                  /\ log[Len(log)][3] = dialog.vehicle]_vars

\* The operator declined one dialog and accepted the next: the cancel line
\* is in a console, the accepted request is pending.
C4_Witness ==
    /\ last_op.op \in EmergencyHandlers
    /\ last_op.arg = "accepted"
    /\ Len(futures) = 1
    /\ futures[1].request = [beacon_id |-> last_op.vehicle]
    /\ \E v \in Range(selected_vehicles) :
        \E i \in DOMAIN console_text[v] :
            console_text[v][i][1] = "Canceling for Vehicle"

\* The console labels after `msg` is appended once to every log.
AppendedToAll(console, msg) ==
    [v \in DOMAIN console |-> Append(console[v], msg)]

\* The console labels after `msg` is appended to the log of `vehicle` alone.
AppendedToOne(console, msg, vehicle) ==
    [v \in DOMAIN console |->
        IF v = vehicle THEN Append(console[v], msg) ELSE console[v]]

\* C5: a console update addressed to vehicle id 0 appends the message
\* exactly once to the console log of every selected vehicle, both when
\* _update_console_gui is given the id 0 and when a console_log message
\* with vehicle_number 0 goes through handle_console_log and the signals it
\* emits are delivered.
C5_BroadcastOnceEach ==
    [][/\ (last_op'.op = "_update_console_gui" /\ last_op'.vehicle = 0)
            => console_text'
                    = AppendedToAll(console_text, Head(ui_queue).msg)
       /\ (last_op'.op = "handle_console_log" /\ last_op'.vehicle = 0)
            => \E message \in ConsoleTexts :
                ApplySignals(console_text, NewSignals)
                    = AppendedToAll(console_text, message)]_vars

\* C6: a console update addressed to an id other than 0 appends the message
\* to the log of that vehicle and leaves every other log as it was when the
\* id is selected, and changes no log when it is not: for the delivery of
\* a signal to _update_console_gui, for a console_log message through
\* handle_console_log, and for the line spec_copy_bags writes.
C6_SpecificOnlyThatLog ==
    [][/\ (last_op'.op = "_update_console_gui" /\ last_op'.vehicle # 0)
            => console_text' = AppendedToOne(console_text,
                                    Head(ui_queue).msg, last_op'.vehicle)
       /\ (last_op'.op = "handle_console_log" /\ last_op'.vehicle # 0)
            => \E message \in ConsoleTexts :
                ApplySignals(console_text, NewSignals)
                    = AppendedToOne(console_text, message, last_op'.vehicle)
       /\ (last_op'.op = "spec_copy_bags" /\ last_op'.vehicle # 0)
            => console_text' = AppendedToOne(console_text,
                                    Text("Starting bag sync for Vehicle", "",
                                         last_op'.vehicle),
                                    last_op'.vehicle)]_vars

\* A console_log line for a vehicle other than 0 has been delivered with two
\* vehicles selected: it ends the log of that vehicle and is in no other.
C6_Witness ==
    /\ last_op.op = "_update_console_gui"
    /\ last_op.vehicle # 0
    /\ Len(selected_vehicles) = 2
    /\ \E message \in ConsoleTexts :
        \A v \in Range(selected_vehicles) :
            (v = last_op.vehicle)
                <=> (\E i \in DOMAIN console_text[v] :
                        console_text[v][i] = message)

\* C7: at the end of __init__ the Status Store has every metric key and,
\* under it, an entry for every selected vehicle; the entry is Waiting (2)
\* under the health keys and empty under Status_messages and
\* Console_messages.
C7_DefaultsAfterInit ==
    last_op.op = "__init__" =>
        \A k \in MetricKeys :
            /\ k \in DOMAIN feedback_dict
            /\ \A v \in Range(selected_vehicles) :
                /\ v \in DOMAIN feedback_dict[k]
                /\ k \in HealthKeys => feedback_dict[k][v] = 2
                /\ k \in {"Status_messages", "Console_messages"}
                        => feedback_dict[k][v] = <<>>

\* The window has just been built for two vehicles.
C7_Witness ==
    /\ last_op.op = "__init__"
    /\ Len(selected_vehicles) >= 2
    /\ \A v \in Range(selected_vehicles) : feedback_dict["Wifi"][v] = 2

\* C8: in every state the Status Store has every metric key and, under it,
\* an entry for every selected vehicle.
C8_EntriesNeverAbsent ==
    \A k \in MetricKeys :
        /\ k \in DOMAIN feedback_dict
        /\ \A v \in Range(selected_vehicles) : v \in DOMAIN feedback_dict[k]

\* A safety status, a depth and a connections message have been delivered
\* and each has rewritten an entry of a selected vehicle.
C8_Witness ==
    /\ last_op.op = "_update_connections_gui"
    /\ \E v \in Range(selected_vehicles) :
        /\ feedback_dict["GPS"][v] # Waiting
        /\ feedback_dict["Depth"][v] # Waiting
        /\ \/ feedback_dict["Radio"][v] # Waiting
           \/ feedback_dict["Modem"][v] # Waiting

\* C9: the confirmation label is only ever set by the UI thread: the change
\* a worker thread or a done-callback causes arrives through a signal.
C9_LabelSetOnUiThread == confirm_label.thread = "ui"

\* The last value delivered for a metric and a vehicle.
LastDelivered(k, v) == delivered[k][v][Len(delivered[k][v])]

\* C10, as stated: once an update was delivered for a metric and a vehicle,
\* the stored value is the value the last delivered update carried.
C10_StoredIsLastDelivered ==
    \A k \in ScalarKeys, v \in VehicleIds :
        delivered[k][v] # <<>> =>
            /\ v \in DOMAIN feedback_dict[k]
            /\ feedback_dict[k][v] = LastDelivered(k, v)

\* C10, amended: once an update was delivered for a metric and a vehicle,
\* the stored value is the value the last delivered update carried, rounded
\* to two decimals (one decimal for Battery), whatever was delivered and
\* stored before.
C10_StoredIsLastDeliveredRounded ==
    \A k \in ScalarKeys, v \in VehicleIds :
        delivered[k][v] # <<>> =>
            /\ v \in DOMAIN feedback_dict[k]
            /\ feedback_dict[k][v]
                    = RoundTo(LastDelivered(k, v),
                              IF k = "Battery" THEN 100 ELSE 10)

\* Two depths that round apart have been delivered, one after the other,
\* for the same vehicle.
C10_Witness ==
    \E v \in VehicleIds :
        /\ Len(delivered["Depth"][v]) >= 2
        /\ delivered["Depth"][v][1] # delivered["Depth"][v][2]
        /\ last_op = Op("update_depth_data", v, "")

\* The console labels on their own: the lines of the console_log topic and
\* of bag sync, their delivery, and the Clear Console button.
InitConsoleLog == InitWith(CommandSteps)

NextConsoleLog ==
    \/ HandleConsoleLog
    \/ DeliverConsole
    \/ SpecCopyBags
    \/ RunSyncBags
    \/ ClearConsole
    \/ ClearConsoleDialogDone

SpecConsoleLog == InitConsoleLog /\ [][NextConsoleLog]_vars

IsPrefix(s, t) == Len(s) <= Len(t) /\ SubSeq(t, 1, Len(s)) = s

\* C11, as stated: in every step the content of each console log before the
\* step is a prefix of its content after the step.
C11_ConsoleAppendOnly ==
    [][\A v \in DOMAIN console_text :
            IsPrefix(console_text[v], console_text'[v])]_vars

\* C11, amended: in every step the content of each console log before the
\* step is a prefix of its content after the step, except that a Clear
\* Console the operator confirmed for vehicle v empties the log of v.
C11_ConsoleAppendOnlyUntilCleared ==
    [][\A v \in DOMAIN console_text :
            \/ IsPrefix(console_text[v], console_text'[v])
            \/ /\ last_op' = Op("clear_console", v, "accepted")
               /\ console_text'[v] = <<>>]_vars

\* A log was cleared and a console_log line was delivered to it afterwards:
\* the line is all the log holds, the line written by __init__ is gone.
C11_Witness ==
    /\ last_op.op = "_update_console_gui"
    /\ \E v \in Range(selected_vehicles) :
        /\ Len(console_text[v]) = 1
        /\ console_text[v][1] \in ConsoleTexts

\* ------------------------------------------------------------- claim C12
\* Load All Missions on its own: the button, the file dialog, the loader
\* thread and the delivery of the console signals it emits.
InitMission == InitWith(CommandSteps)

NextMission ==
    \/ LoadMissionsButton
    \/ BrowseFile
    \/ ApplyToAll
    \/ LoadMissionsAccept
    \/ LoadMissionsCancel
    \/ DeployInThread
    \/ DeliverConsole

SpecMission == InitMission /\ [][NextMission]_vars

\* The messages the step published.
NewPublished == SubSeq(published', Len(published) + 1, Len(published'))

\* A loader run whose files are all readable and carry at least two
\* different origin_lla sections; `chosen` is the dict of the dialog.
OriginsDiffer(chosen) ==
    /\ \A i \in DOMAIN chosen : chosen[i][2] \notin Unreadable
    /\ \E i, j \in DOMAIN chosen :
            /\ MissionData(chosen[i][2]).origin_lla # <<>>
            /\ MissionData(chosen[j][2]).origin_lla # <<>>
            /\ MissionData(chosen[i][2]).origin_lla
                    # MissionData(chosen[j][2]).origin_lla

\* C12: a mission load whose files have different origin_lla publishes no
\* origin message, and publishes for every vehicle whose own file (the one
\* picked on that vehicle's tab) has waypoints exactly one path, made of
\* the waypoints of that file.
C12_DifferingOriginsOwnPaths ==
    [][(last_op'.op = "deploy_in_thread" /\ OriginsDiffer(last_op'.input))
        => /\ \A i \in DOMAIN NewPublished :
                    NewPublished[i].topic # "origin"
           /\ \A v \in Range(selected_vehicles) :
                LET own == MissionData(DictAt(last_op'.input, v)).waypoints
                IN own # <<>> =>
                    /\ \E i \in DOMAIN NewPublished :
                            NewPublished[i] = PathMsg(own, v)
                    /\ \A i, j \in DOMAIN NewPublished :
                            (/\ NewPublished[i].topic = "path"
                             /\ NewPublished[j].topic = "path"
                             /\ NewPublished[i].vehicle = v
                             /\ NewPublished[j].vehicle = v) => i = j]_vars

\* ------------------------------------------------------------- claim C13
\* The safety-status message _update_safety_status_information was given
\* last, and its vehicle.
SafetyStored(key) == feedback_dict[key][last_op.vehicle]

\* C13 as stated: an asserted GPS or DVL flag is stored as Positive (1), a
\* cleared flag as Negative (0).
C13_AssertedStoredPositive ==
    last_op.op = "_update_safety_status_information"
        => /\ SafetyStored("GPS") = IF last_op.input.gps_status
                                    THEN Positive ELSE Negative
           /\ SafetyStored("DVL") = IF last_op.input.dvl_status
                                    THEN Positive ELSE Negative

\* C13 amended: an asserted GPS or DVL flag is stored as Negative (0), a
\* cleared flag as Positive (1).
C13_AssertedStoredNegative ==
    last_op.op = "_update_safety_status_information"
        => /\ SafetyStored("GPS") = IF last_op.input.gps_status
                                    THEN Negative ELSE Positive
           /\ SafetyStored("DVL") = IF last_op.input.dvl_status
                                    THEN Negative ELSE Positive

\* A selected vehicle's message with the GPS flag asserted and the DVL flag
\* cleared has been stored.
C13_Witness ==
    /\ last_op.op = "_update_safety_status_information"
    /\ last_op.vehicle \in Range(selected_vehicles)
    /\ last_op.input.gps_status
    /\ ~last_op.input.dvl_status
    /\ SafetyStored("GPS") = Negative
    /\ SafetyStored("DVL") = Positive

InitWorkers == InitWith(CommandSteps)

NextWorkers ==
    \/ PingVehiclesViaWifi
    \/ DoPing
    \/ DeliverWifi
    \/ SpecCopyBags
    \/ RunSyncBags
    \/ LoadMissionsButton
    \/ ApplyToAll
    \/ LoadMissionsAccept
    \/ DeployInThread
    \/ StartMissionsButton
    \/ StartMissionsDialogDone
    \/ StartMissionsInThread
    \/ RunCalibrateScript
    \/ RunCalibrateScriptThreaded
    \/ DeliverConsole

SpecWorkers == InitWorkers /\ [][NextWorkers]_vars

\* C15: no exception raised in a background worker thread (ping batch,
\* mission load, mission start, bag sync, vehicle calibration) escapes the
\* thread: each is caught in the thread's entry function.
C15_NoExceptionEscapes == uncaught = <<>>

\* ------------------------------------------------------------- claim C16
\* C16: a theme switch (set_color_theme followed by apply_theme_to_widgets)
\* leaves every entry of feedback_dict and the text of every console log
\* as they were, and the colors it sets are those the table gives for the
\* theme identifier, whatever the state before.
C16_ThemeSwitchFrame ==
    [][last_op'.op = "set_color_theme"
        => /\ feedback_dict' = feedback_dict
           /\ console_text' = console_text
           /\ colors' = ThemeColors(last_op'.arg)]_vars

\* A theme other than the initial one has been applied in a session that
\* already holds a received value and console text.
C16_Witness ==
    /\ last_op.op = "set_color_theme"
    /\ last_op.arg # "dark_mode"
    /\ colors # ThemeColors("dark_mode")
    /\ \E v \in Range(selected_vehicles) :
        /\ feedback_dict["Depth"][v] # Waiting
        /\ console_text[v] # <<>>

\* ------------------------------------------------------------- claim C17
\* The console scroll areas of a window that is shown and idle: console_log
\* messages, their delivery, the layout, the timers and the operator's
\* scrolling.
InitScroll == InitWindow(CommandSteps, TRUE)

NextScroll ==
    \/ HandleConsoleLog
    \/ DeliverConsole
    \/ Layout
    \/ MaybeScroll
    \/ OperatorScroll

SpecScroll == InitScroll /\ [][NextScroll]_vars

\* The viewport shows the end of the content (within the slack).
AtBottom(w) == w.value >= w.maximum - BottomSlack

\* C17: every line appended to a console starts one timer that remembers
\* whether the viewport was at the bottom before the append, and the
\* append itself does not move the view; when the timer of an append that
\* found the viewport at the bottom runs, the view is scrolled to the
\* bottom; when the timer of an append that found it scrolled up runs, the
\* scroll position stays as it is.
C17_StickyTail ==
    [][\A v \in DOMAIN view :
        /\ Len(console_text'[v]) > Len(console_text[v])
            => /\ view'[v].timers = view[v].timers \o
                    [i \in 1..(Len(console_text'[v]) - Len(console_text[v]))
                        |-> AtBottom(view[v])]
               /\ view'[v].value = view[v].value
        /\ (last_op'.op = "maybe_scroll" /\ last_op'.vehicle = v)
            => IF Head(view[v].timers)
               THEN view'[v].value = view'[v].maximum
               ELSE view'[v].value = view[v].value]_vars

\* The timer of a line appended while the operator had scrolled up has
\* run, and the view is still above the bottom.
C17_Witness ==
    /\ last_op.op = "maybe_scroll"
    /\ last_op.arg = "not at_bottom"
    /\ ~AtBottom(view[last_op.vehicle])
    /\ view[last_op.vehicle].maximum
            = ContentMax(Len(console_text[last_op.vehicle]))

\* ------------------------------------------------------------- claim C18
\* Telemetry on its own: the messages of the vehicles reach their slots.
InitTelemetry == InitWith(TelemetrySteps)

NextTelemetry ==
    \/ DeliverDepth
    \/ DeliverPressure
    \/ DeliverBattery
    \/ DeliverSafetyStatus
    \/ DeliverSmoothedOutput
    \/ DeliverConnections

SpecTelemetry == InitTelemetry /\ [][NextTelemetry]_vars

SumOfSquares(vec) == vec[1] * vec[1] + vec[2] * vec[2] + vec[3] * vec[3]

\* d thousandths is a whole number of hundredths, not negative, and within
\* half a hundredth of the root of s millionths.
IsNormTo2Decimals(d, s) ==
    /\ d >= 0
    /\ d % 10 = 0
    /\ (d <= 5 \/ (d - 5) * (d - 5) <= s)
    /\ s <= (d + 5) * (d + 5)

\* C18: after a pose/twist message the stored DVL_vel and Angular_vel are
\* the Euclidean norms of the linear and angular twist, rounded to two
\* decimals, and never negative; linear (3, 4, 0) is stored as 5.0 and
\* angular (0, 0, 0) as 0.0.
C18_VelocitiesAreNorms ==
    last_op.op = "_update_gui_smoothed_output"
        => /\ IsNormTo2Decimals(feedback_dict["DVL_vel"][last_op.vehicle],
                                SumOfSquares(last_op.input.linear))
           /\ IsNormTo2Decimals(feedback_dict["Angular_vel"][last_op.vehicle],
                                SumOfSquares(last_op.input.angular))
           /\ last_op.input.linear = <<3000, 4000, 0>>
                => feedback_dict["DVL_vel"][last_op.vehicle] = 5000
           /\ last_op.input.angular = <<0, 0, 0>>
                => feedback_dict["Angular_vel"][last_op.vehicle] = 0

\* The message with linear velocity (3, 4, 0) and angular velocity
\* (0, 0, 0) has been stored for a selected vehicle.
C18_Witness ==
    /\ last_op.op = "_update_gui_smoothed_output"
    /\ last_op.vehicle \in Range(selected_vehicles)
    /\ last_op.input.linear = <<3000, 4000, 0>>
    /\ last_op.input.angular = <<0, 0, 0>>
    /\ feedback_dict["DVL_vel"][last_op.vehicle] = 5000
    /\ feedback_dict["Angular_vel"][last_op.vehicle] = 0

\* ------------------------------------------------------------- claim C19
\* The vehicle selection dialog, before the window exists.
InitSelection ==
    /\ selected_vehicles = <<>>
    /\ deploy_config = <<>>
    /\ Vehicle_IP_addresses = <<>>
    /\ ip_to_vehicle = <<>>
    /\ feedback_dict = InitFeedbackDict(<<>>)
    /\ console_text = <<>>
    /\ view = <<>>
    /\ confirm_label = InitialLabel
    /\ futures = <<>>
    /\ ui_queue = <<>>
    /\ threads = <<>>
    /\ dialog = NoDialog
    /\ color_theme = "dark_mode"
    /\ colors = ThemeColors("dark_mode")
    /\ published = <<>>
    /\ uncaught = <<>>
    /\ config_window = OpenConfigWindow
    /\ fins = NoFins
    /\ last_op = Op("OpenWindow", NoNum, "exec")
    /\ delivered = [k \in ScalarKeys |-> [v \in VehicleIds |-> <<>>]]
    /\ steps_left = MaxSteps

NextSelection ==
    \/ ToggleCheckbox
    \/ AddCustomInput
    \/ ValidateAndAccept

SpecSelection == InitSelection /\ [][NextSelection]_vars

\* The selection the claim lets through: not empty, at most 4 entries,
\* every entry an integer of 0..999, no entry twice.
Acceptable(states) ==
    /\ states # <<>>
    /\ Len(states) <= 4
    /\ \A i \in DOMAIN states :
            states[i].is_int /\ states[i].num \in 0..999
    /\ \A i, j \in DOMAIN states : states[i] = states[j] => i = j

\* C19: the Ok button closes the dialog and returns the selection exactly
\* when the selection is not empty, has at most 4 entries, all of them
\* integers of 0..999 and all different; otherwise the dialog stays open
\* and returns nothing.
C19_AcceptsIffValid ==
    [][last_op'.op = "validate_and_accept"
        => IF Acceptable(last_op'.input)
           THEN /\ ~config_window'.open
                /\ config_window'.result =
                        [i \in DOMAIN last_op'.input |->
                            last_op'.input[i].num]
           ELSE /\ config_window'.open
                /\ config_window'.result = <<>>]_vars

\* A selection made of a checkbox and the custom numbers 0 and 999 has
\* been accepted.
C19_Witness ==
    /\ last_op.op = "validate_and_accept"
    /\ ~config_window.open
    /\ Len(config_window.result) = 3
    /\ {0, 999} \subseteq Range(config_window.result)

\* ------------------------------------------------------------- claim C20
\* The index of vehicle v in the list ids, 0 when it is not listed.
IndexIn(ids, v) ==
    IF \E i \in DOMAIN ids : ids[i] = v
    THEN CHOOSE i \in DOMAIN ids : ids[i] = v
    ELSE 0

\* C20: a Connections message writes only the status key and the seconds
\* key of its link (Radio, Radio_seconds when connection_type is true,
\* Modem, Modem_seconds otherwise), and only for the listed vehicles that
\* are selected: the status becomes 1 or 0 as connections[i] says and the
\* seconds become last_ping[i], i being the place of the vehicle in
\* vehicle_ids.  Every other entry, and the set of vehicles of every key,
\* stays as it was.
C20_ConnectionsFrame ==
    [][last_op'.op = "_update_connections_gui"
        => LET m == last_op'.input
               key == IF m.connection_type THEN "Radio" ELSE "Modem"
               seconds == IF m.connection_type THEN "Radio_seconds"
                                                ELSE "Modem_seconds"
           IN \A k \in MetricKeys :
                /\ DOMAIN feedback_dict'[k] = DOMAIN feedback_dict[k]
                /\ \A v \in DOMAIN feedback_dict[k] :
                    LET i == IndexIn(m.vehicle_ids, v) IN
                    feedback_dict'[k][v] =
                        IF i # 0 /\ v \in Range(selected_vehicles)
                                /\ k = key
                        THEN (IF m.connections[i] THEN 1 ELSE 0)
                        ELSE IF i # 0 /\ v \in Range(selected_vehicles)
                                    /\ k = seconds
                        THEN m.last_ping[i]
                        ELSE feedback_dict[k][v]]_vars

\* A message listing vehicle 1 before vehicle 0, both selected, has been
\* applied: each has the status and the seconds of its own place in the
\* list.
C20_Witness ==
    /\ last_op.op = "_update_connections_gui"
    /\ last_op.input.vehicle_ids = <<1, 0>>
    /\ last_op.input.connection_type
    /\ last_op.input.connections = <<TRUE, FALSE>>
    /\ {0, 1} \subseteq Range(selected_vehicles)
    /\ feedback_dict["Radio"][1] = 1
    /\ feedback_dict["Radio"][0] = 0
    /\ feedback_dict["Radio_seconds"][1] = last_op.input.last_ping[1]
    /\ feedback_dict["Radio_seconds"][0] = last_op.input.last_ping[2]
    /\ feedback_dict["Modem"][1] = Waiting

\* ------------------------------------------- theme switching in a session
\* The theme menu next to some telemetry and console traffic.
InitTheme == InitWith(AllSteps)

NextTheme ==
    \/ SetColorTheme
    \/ DeliverDepth
    \/ DeliverSafetyStatus
    \/ HandleConsoleLog
    \/ DeliverConsole

SpecTheme == InitTheme /\ [][NextTheme]_vars

\* Fin calibration on its own, every selected vehicle in deploy_config.json:
\* the button, the worker, the dialog and the operator's inputs.
InitFins ==
    /\ selected_vehicles \in FinSelectableLists
    /\ LET vehicles == [v \in FinVehicleIds |-> IpOf(v)] IN
        /\ deploy_config = [v \in Range(selected_vehicles) |-> vehicles[v]]
        /\ Vehicle_IP_addresses = IpList(selected_vehicles, vehicles)
        /\ ip_to_vehicle = IpToVehicle(selected_vehicles, vehicles)
        /\ console_text = InitConsole(selected_vehicles, vehicles)
        /\ view = InitView(InitConsole(selected_vehicles, vehicles))
    /\ feedback_dict = InitFeedbackDict(selected_vehicles)
    /\ confirm_label = InitialLabel
    /\ futures = <<>>
    /\ ui_queue = <<>>
    /\ threads = <<>>
    /\ dialog = NoDialog
    /\ color_theme = "dark_mode"
    /\ colors = ThemeColors("dark_mode")
    /\ published = <<>>
    /\ uncaught = <<>>
    /\ config_window = ClosedConfigWindow
    /\ \E files \in ParamFiles : fins = [NoFins EXCEPT !.files = files]
    /\ last_op = Op("__init__", NoNum, "")
    /\ delivered = [k \in ScalarKeys |-> [v \in VehicleIds |-> <<>>]]
    /\ steps_left = MaxSteps

NextFins ==
    \/ CalibrateFins
    \/ CalibrateFinsWorkerRun
    \/ DeliverConsole
    \/ AfterWorker
    \/ ClickPubTypeBox
    \/ MoveSlider
    \/ FinsDialogDone

SpecFins == InitFins /\ [][NextFins]_vars

\* C21: in the fin calibration dialog, after any sequence of clicks on the
\* publish-target checkboxes, exactly one of the two boxes of every tab is
\* checked, pub_types of the vehicle is 1 when it is the kinematics box and
\* 0 when it is the controls box, and the stateChanged signals of the last
\* click were followed to their end (two of them).
C21_ExclusivePubType ==
    \A v \in DOMAIN fins.boxes :
        /\ fins.boxes[v].kinematics # fins.boxes[v].controls
        /\ fins.boxes[v].pub_type
                = (IF fins.boxes[v].kinematics THEN 1 ELSE 0)
        /\ ~fins.boxes[v].cut
        /\ fins.boxes[v].emits \in {0, 2}

\* The operator has clicked a box of a tab twice over: the kinematics box
\* to uncheck it, then the controls box to uncheck that, while the other
\* tab is as it was built.
C21_Witness ==
    /\ last_op = Op("stateChanged", last_op.vehicle, "controls")
    /\ Len(fins.tabs) = 2
    /\ \E v, w \in Range(fins.tabs) :
        /\ v # w
        /\ fins.boxes[v].kinematics /\ fins.boxes[v].emits = 2
        /\ fins.boxes[w].emits = 0

\* after_worker has returned from an accepted dialog, or an exception has
\* left it while it saved.
FinsAccepted ==
    /\ last_op.op = "after_worker"
    /\ last_op.arg \in {"accepted", "exception"}
    /\ last_op.input.tabs # <<>>

\* What the accepted dialog added to a history of fins.
FinsAdded(field) ==
    SubSeq(fins[field], Len(last_op.input[field]) + 1, Len(fins[field]))

\* C26: when the fin calibration dialog is accepted, every tab gives one
\* saved param file entry and one set of kinematics parameters, each under
\* the vehicle id of the tab and with the slider values of the tab, and the
\* console of that vehicle ends with the line that reports the save; no two
\* tabs share an entry.
C26_SavedUnderOwnId ==
    FinsAccepted =>
        LET tabs == last_op.input.tabs IN
        /\ Len(FinsAdded("saved")) = Len(tabs)
        /\ Len(FinsAdded("parameters")) = Len(tabs)
        /\ \A i \in DOMAIN tabs :
            /\ FinsAdded("saved")[i]
                = [file |-> tabs[i],
                   offsets |-> last_op.input.sliders[tabs[i]]]
            /\ FinsAdded("parameters")[i]
                = [vehicle |-> tabs[i],
                   offsets |-> last_op.input.sliders[tabs[i]]]
            /\ console_text[tabs[i]][Len(console_text[tabs[i]])]
                = Text("Fin Calibration Saved to Params", "", NoNum)

\* The step is a run of CalibrateFinsWorker that reaches its emit.
WorkerFinishedStep ==
    /\ last_op'.op = "CalibrateFinsWorker.run"
    /\ last_op'.arg = "finished"

DeployReadStep ==
    /\ last_op'.op = "deploy_in_thread"
    /\ \A i \in DOMAIN last_op'.input : last_op'.input[i][2] \notin Unreadable

\* The thread the step ran.
DeployThread ==
    threads[CHOOSE i \in DOMAIN threads :
                /\ threads[i].target = "deploy_in_thread"
                /\ threads' = RemoveAt(threads, i)]

\* C22: in Load All Missions every selected vehicle is handled with the file
\* picked on its own tab: that file is the one at the vehicle's place in the
\* list given to deploy, and when it has waypoints the one path published
\* for the vehicle is made of them.
C22_OwnFilePerVehicle ==
    [][DeployReadStep =>
        \A idx \in DOMAIN selected_vehicles :
            LET v == selected_vehicles[idx]
                own == DictAt(last_op'.input, v)
            IN /\ DeployThread.selected_files[idx] = own
               /\ MissionData(own).waypoints # <<>> =>
                    \E i \in DOMAIN NewPublished :
                        /\ NewPublished[i] = PathMsg(MissionData(own).waypoints,
                                                     v)
                        /\ \A j \in DOMAIN NewPublished :
                            (/\ NewPublished[j].topic = "path"
                             /\ NewPublished[j].vehicle = v) => i = j]_vars

\* The complete origins (latitude and longitude both given) of the files of
\* a dialog result.
CompleteOrigins(chosen) ==
    {MissionData(chosen[i][2]).origin_lla : i \in
        {j \in DOMAIN chosen :
            /\ MissionData(chosen[j][2]).origin_lla # <<>>
            /\ None \notin Range(MissionData(chosen[j][2]).origin_lla)}}

\* C27: whenever Load All Missions publishes an origin message, the files
\* that gave a complete origin_lla all gave the same one and the message
\* carries it: no missing value, nothing from a file whose origin was
\* rejected.
C27_PublishedOriginIsCommon ==
    [][DeployReadStep =>
        \A i \in DOMAIN NewPublished :
            NewPublished[i].topic = "origin" =>
                /\ None \notin Range(NewPublished[i].data)
                /\ CompleteOrigins(last_op'.input)
                        = {NewPublished[i].data}]_vars

\* ------------------------------------------------------------- claim C29
\* C29: after any sequence of telemetry messages the vehicle ids keyed under
\* every metric of the Status Store are the selected vehicles and no others:
\* a message for a vehicle that is not selected leaves the store as it was.
C29_StoreKeyedBySelected ==
    \A k \in MetricKeys : DOMAIN feedback_dict[k] = Range(selected_vehicles)

\* ------------------------------------------------------------- claim C25
\* C25: a console update delivered for a selected vehicle, and the console
\* signals of a service response for a selected vehicle, add a line to the
\* console log of that vehicle and leave the logs of the other selected
\* vehicles as they were, whatever the id, 0 included.
C25_OnlyTheAddressedLog ==
    [][/\ (/\ last_op'.op = "_update_console_gui"
           /\ last_op'.vehicle \in Range(selected_vehicles))
            => console_text' = AppendedToOne(console_text,
                                    Head(ui_queue).msg, last_op'.vehicle)
       /\ (/\ last_op'.op = "handle_service_response"
           /\ last_op'.vehicle \in Range(selected_vehicles))
            => LET after == ApplySignals(console_text, NewSignals) IN
               /\ Len(after[last_op'.vehicle])
                    = Len(console_text[last_op'.vehicle]) + 1
               /\ \A w \in Range(selected_vehicles) \ {last_op'.vehicle} :
                    after[w] = console_text[w]]_vars

\* ------------------------------------------------------------- claim C28
\* C28: a selected vehicle that deploy_config.json does not have has, in its
\* console, exactly one line saying so, written at session start; its Wifi
\* status stays Waiting and no modem request is ever issued for it; every
\* ping batch probes the hosts of the selected vehicles the config has, all
\* of them and no other.
C28_MissingVehicleSkipped ==
    /\ \A v \in Range(selected_vehicles) \ DOMAIN deploy_config :
        /\ Cardinality({i \in DOMAIN console_text[v] :
                console_text[v][i]
                    = Text("Vehicle not found in config", "", v)}) = 1
        /\ feedback_dict["Wifi"][v] = Waiting
        /\ \A i \in DOMAIN futures :
            futures[i].client = "cli3" => futures[i].request.vehicle_id # v
    /\ last_op.op = "do_ping" =>
        /\ {Vehicle_IP_addresses[i] : i \in DOMAIN last_op.input}
                = {deploy_config[v] : v \in DOMAIN deploy_config}
        /\ Len(last_op.input) = Cardinality(DOMAIN deploy_config)

\* With one selected vehicle in the config and one missing from it, two
\* batches have been reported: the vehicle of the config was found reachable
\* and then unreachable, the other one is still Waiting.
C28_Witness ==
    /\ last_op.op = "update_wifi_widgets"
    /\ Len(selected_vehicles) = 2
    /\ Cardinality(DOMAIN deploy_config) = 1
    /\ Len(futures) = 2
    /\ \A v \in DOMAIN deploy_config : feedback_dict["Wifi"][v] = Negative
    /\ \A v \in Range(selected_vehicles) \ DOMAIN deploy_config :
        feedback_dict["Wifi"][v] = Waiting

\* ------------------------------------------------------------- claim C24
\* The lines the step appends to the console of vehicle V.
NewLines(V) ==
    SubSeq(console_text'[V], Len(console_text[V]) + 1, Len(console_text'[V]))

PingLine(V, reachable) ==
    Text(IF reachable = 1 THEN "Ping successful for vehicle"
                          ELSE "Unable to Ping vehicle", "", V)

ModemLine(reachable) ==
    Text(IF reachable = 1 THEN "Wifi Connected, Shutting Off Modem"
                          ELSE "Wifi Disconnected, Turning On Modem",
         "", NoNum)

\* The report being delivered is the first one for the vehicle of item r.
FirstReport(r) == r.stored = Waiting

\* What the first report does to the status and the modem, as C24 has it.
FirstReportStored(r) ==
    /\ r.reachable \in {Negative, Positive}
    /\ feedback_dict'["Wifi"][r.vehicle] = r.reachable
    /\ Cardinality(ModemRequestsFor(r.vehicle)) = 1
    /\ \A j \in ModemRequestsFor(r.vehicle) :
        NewFutures[j].request
            = ModemControlRequest(r.reachable = Positive, r.vehicle)

NeverBackToWaiting ==
    \A v \in Range(selected_vehicles) :
        feedback_dict["Wifi"][v] # Waiting
            => feedback_dict'["Wifi"][v] # Waiting

\* C24 as stated: the first probe report for a vehicle, delivered while its
\* Wifi status is Waiting, sets the status to 0 or 1, appends one line to the
\* vehicle's console and issues exactly one modem request for it (shutoff
\* when reachable, power-on when not); the status never goes back to Waiting.
C24_FirstReportOneLine ==
    [][/\ WifiReportStep =>
            \A r \in ReportedVehicles :
                FirstReport(r) =>
                    /\ FirstReportStored(r)
                    /\ Len(NewLines(r.vehicle)) = 1
       /\ NeverBackToWaiting]_vars

\* C24, amended: the first probe report for a vehicle, delivered while its
\* Wifi status is Waiting, sets the status to 0 or 1, appends to the
\* vehicle's console the ping result line naming the vehicle, once, directly
\* followed by the modem notice line, and issues exactly one modem request
\* for it (shutoff when reachable, power-on when not); the status never goes
\* back to Waiting.
C24_FirstReportIsAChange ==
    [][/\ WifiReportStep =>
            \A r \in ReportedVehicles :
                FirstReport(r) =>
                    /\ FirstReportStored(r)
                    /\ LET new == NewLines(r.vehicle)
                           at == {i \in DOMAIN new :
                                    new[i] = PingLine(r.vehicle, r.reachable)}
                       IN /\ Cardinality(at) = 1
                          /\ \A i \in at :
                                /\ i + 1 \in DOMAIN new
                                /\ new[i + 1] = ModemLine(r.reachable)
                          /\ \A i \in DOMAIN new :
                                new[i] # PingLine(r.vehicle, 1 - r.reachable)
       /\ NeverBackToWaiting]_vars

\* Two reports have been delivered for a lone vehicle: the first one, taken
\* while the status was Waiting, found it unreachable, the second one found
\* it reachable; the console of the vehicle ends with their four lines.
C24_Witness ==
    /\ last_op.op = "update_wifi_widgets"
    /\ \E V \in Range(selected_vehicles) :
        /\ V # 0
        /\ feedback_dict["Wifi"][V] = Positive
        /\ Len(console_text[V]) >= 4
        /\ SubSeq(console_text[V], Len(console_text[V]) - 3,
                  Len(console_text[V]))
                = <<PingLine(V, 0), ModemLine(0),
                    PingLine(V, 1), ModemLine(1)>>
        /\ Len(futures) = 2
        /\ futures[1].request = ModemControlRequest(FALSE, V)
        /\ futures[2].request = ModemControlRequest(TRUE, V)

\* ------------------------------------------------------------- claim C23
\* C23: probe reports take effect in the order in which the timer started
\* their batches: the report of a batch that was started before a batch
\* whose report has been applied already never changes a stored Wifi status
\* and never issues a modem request, so that neither reverts to an older
\* measurement.
C23_ReportsInStartOrder ==
    [][(WifiReportStep /\ Head(ui_queue).stale) =>
            /\ feedback_dict'["Wifi"] = feedback_dict["Wifi"]
            /\ futures' = futures]_vars

====
